---- MODULE Spec2Model ----
(***************************************************************************)
(* FinTrackPro record store (utils/data_utils.py, utils/auth_utils.py),    *)
(* exchange-rate lookups (utils/api_utils.py) and calculation engine       *)
(* (utils/calculations.py).                                                *)
(*                                                                         *)
(* The three CSV files data/users.csv, data/expenses.csv, data/backlog.csv *)
(* are the state.  A file is a record [exists, rows]; rows is the sequence *)
(* of data lines below the header, each line a record of cells.            *)
(*                                                                         *)
(* A Python str is a sequence of one-character strings ("ab" is            *)
(* <<"a","b">>, '' is <<>>).  None and NaN are the one-element sequences   *)
(* PyNone and NaN, whose element is no character, so they differ from      *)
(* every str.  Integer columns (the ids) hold integers.                    *)
(*                                                                         *)
(* A DataFrame is a sequence of [idx, row]: idx is the index label         *)
(* (0-based after read_csv, kept by filtering, sorting and drop).          *)
(*                                                                         *)
(* call and ret hold the last call made and the value it returned.         *)
(* Spec is the expense and task store, SpecUsers the users table, SpecIO   *)
(* the three files when reads and writes can fail, SpecRates the          *)
(* exchange-rate cache, SpecCalc the calculators, SpecSave two saves that  *)
(* run at the same time, SpecRegister the registration form, SpecBulk the  *)
(* deletion of all completed tasks, SpecManage two sessions on the expense *)
(* list, SpecAuth registration and login, SpecProfile the profile update,  *)
(* SpecSession one browser session signing in and out.                     *)
(***************************************************************************)
EXTENDS Integers, Sequences, FiniteSets, TLC

VARIABLES users, expenses, backlog, now, call, ret, registration_error,
          rates_cache, requested, clock, session, selected, pending

\* the st.cache_data store of get_cached_exchange_rates, the time of the last
\* request for each base currency, and time.time()
rates_vars == <<rates_cache, requested, clock>>

\* st.session_state of one browser session (authenticated, username, user_id),
\* the row that session has on screen with its delete button, and the
\* save_expense / save_backlog_item calls that are under way
session_vars == <<session, selected, pending>>

vars == <<users, expenses, backlog, now, call, ret, registration_error, rates_vars, session_vars>>

----------------------------------------------------------------------------
(* Bounds of the exploration *)

\* total number of expense and task rows on disk
MaxRows == 2
\* number of rows of the users table
MaxUsers == 2
\* number of clock ticks after the first instant
MaxTicks == 1

\* first instant of the clock: 9, so that the next one has two digits
Epoch == 9

UserIds == {1, 2}
\* the sessions that can be inside a save at the same time
Callers == {1, 2}
Indexes == 0..MaxRows

Pending == <<"P">>
InProgress == <<"I">>
Completed == <<"C">>
Statuses == {Pending, InProgress, Completed}

----------------------------------------------------------------------------
(* Python values *)

PyNone == <<"<None>">>
NaN == <<"<NaN>">>

Letters == {"A", "B", "C", "F", "I", "P", "X", "Y", "a", "b", "c", "m", "p", "x", "y"}
Digits == {"0", "1", "2", "3", "4", "5", "6", "7", "8", "9"}

\* every character of s is in the class
AllIn(s, class) == \A k \in 1..Len(s) : s[k] \in class

\* characters in code-point order
Chars == <<" ", "0", "1", "2", "3", "4", "5", "6", "7", "8", "9", "A", "B", "C", "F", "I", "P", "X", "Y", "a", "b", "c", "m", "p", "x", "y">>

Ord(c) == CHOOSE k \in 1..Len(Chars) : Chars[k] = c

\* str.__lt__ : lexicographic by code point
RECURSIVE StrLess(_, _)
StrLess(a, b) ==
    IF b = <<>> THEN FALSE
    ELSE IF a = <<>> THEN TRUE
    ELSE IF Head(a) = Head(b) THEN StrLess(Tail(a), Tail(b))
    ELSE Ord(Head(a)) < Ord(Head(b))

LowerChar(c) ==
    CASE c = "A" -> "a" [] c = "B" -> "b" [] c = "C" -> "c" [] c = "F" -> "f"
      [] c = "I" -> "i" [] c = "P" -> "p" [] c = "X" -> "x" [] c = "Y" -> "y"
      [] OTHER -> c

\* str.lower()
Lower(s) == [k \in 1..Len(s) |-> LowerChar(s[k])]

RECURSIVE LStrip(_)
LStrip(s) == IF s # <<>> /\ Head(s) = " " THEN LStrip(Tail(s)) ELSE s

RECURSIVE RStrip(_)
RStrip(s) == IF s # <<>> /\ s[Len(s)] = " " THEN RStrip(SubSeq(s, 1, Len(s) - 1)) ELSE s

\* str.strip()
Strip(s) == RStrip(LStrip(s))

Digit(k) == Chars[k + 2]

StrftimeUnpadded(t) == IF t < 10 THEN <<Digit(t)>> ELSE <<Digit(t \div 10), Digit(t % 10)>>

\* datetime.strftime / date.strftime: fixed width, zero padded
Strftime(t) == <<Digit(t \div 10), Digit(t % 10)>>

----------------------------------------------------------------------------
(* pandas *)

\* the integer and boolean columns; every other column holds str (a float is
\* its digits)
IntCols == {"expense_id", "task_id", "user_id", "is_active"}

\* DataFrame.to_csv writes '' , None and NaN as an empty cell
WriteCell(v) ==
    IF v \in {<<>>, PyNone, NaN} THEN <<>>
    ELSE IF Head(v) = "<int>" THEN Tail(v)
    ELSE v

\* pd.read_csv reads an empty cell as NaN
ReadCell(c) == IF c = <<>> THEN NaN ELSE c

WriteRow(r) == [f \in DOMAIN r |-> IF f \in IntCols THEN r[f] ELSE WriteCell(r[f])]

ReadRow(r) == [f \in DOMAIN r |-> IF f \in IntCols THEN r[f] ELSE ReadCell(r[f])]

\* pd.read_csv(file): RangeIndex 0..n-1
read_csv(file) == [k \in 1..Len(file.rows) |-> [idx |-> k - 1, row |-> ReadRow(file.rows[k])]]

\* the int64 a cell of digits is parsed to; it equals no str
RECURSIVE Int64(_)
Int64(c) == IF Len(c) > 1 /\ Head(c) = "0" THEN Int64(Tail(c)) ELSE <<"<int>">> \o c

IsInt64(v) == v # <<>> /\ Head(v) = "<int>"

\* the dtype read_csv infers for a column of strings: when every cell of the
\* column is a number the column is numeric, otherwise the cells stay str
infer_dtype(df, col) ==
    IF df # <<>> /\ \A k \in 1..Len(df) : df[k].row[col] # <<>> /\ AllIn(df[k].row[col], Digits)
    THEN [k \in 1..Len(df) |-> [idx |-> df[k].idx,
                                 row |-> [df[k].row EXCEPT ![col] = Int64(df[k].row[col])]]]
    ELSE df

\* pd.read_csv('data/users.csv')
read_users_csv(file) == infer_dtype(read_csv(file), "username")

\* df.to_csv(file, index=False): the index labels are not written
to_csv(df) == [exists |-> TRUE, rows |-> [k \in 1..Len(df) |-> WriteRow(df[k].row)]]

\* pd.DataFrame(columns=[...]).to_csv: header only
HeaderOnly == [exists |-> TRUE, rows |-> <<>>]

Absent == [exists |-> FALSE, rows |-> <<>>]

concat_front(df, data) == [k \in 1..(Len(df) + 1) |-> [idx |-> k - 1, row |-> IF k = 1 THEN data ELSE df[k - 1].row]]

\* pd.concat([df, pd.DataFrame([data])], ignore_index=True)
concat(df, data) == [k \in 1..(Len(df) + 1) |-> [idx |-> k - 1, row |-> IF k <= Len(df) THEN df[k].row ELSE data]]

Labels(df) == {df[k].idx : k \in 1..Len(df)}

\* df.loc[label]
loc(df, label) == (CHOOSE e \in {df[k] : k \in 1..Len(df)} : e.idx = label).row

drop_from(df, label) == LET before(e) == e.idx < label IN SelectSeq(df, before)

drop_first(df, label) == Tail(df)

\* df.drop(label)
drop(df, label) == LET keep(e) == e.idx # label IN SelectSeq(df, keep)

filter_user_none(df, user_id) == df

\* df[df['user_id'] == user_id]
filter_user(df, user_id) == LET mine(e) == e.row.user_id = user_id IN SelectSeq(df, mine)

Perms(df) ==
    {p \in [1..Len(df) -> 1..Len(df)] : \A i, j \in 1..Len(df) : i # j => p[i] # p[j]}

\* df.sort_values(col, ascending=False): rows with equal keys come in an
\* order the sort does not fix
sort_values_desc(df, col) ==
    {[k \in 1..Len(df) |-> df[p[k]]] : p \in
        {q \in Perms(df) : \A k \in 1..(Len(df) - 1) : ~StrLess(df[q[k]].row[col], df[q[k + 1]].row[col])}}

----------------------------------------------------------------------------
(* utils/data_utils.py: expenses *)

MaxId(df, col) == IF df = <<>> THEN 0 ELSE CHOOSE m \in {df[k].row[col] : k \in 1..Len(df)} : \A k \in 1..Len(df) : df[k].row[col] <= m

next_expense_id_max(expenses_df) == MaxId(expenses_df, "expense_id") + 1

\* expense_id = len(expenses_df) + 1
next_expense_id(expenses_df) == Len(expenses_df) + 1

\* expense_data['expense_id'] = expense_id
with_id(data, col, id) == [f \in (DOMAIN data) \cup {col} |-> IF f = col THEN id ELSE data[f]]

\* save_expense(expense_data): [file, ret]
save_expense(file, expense_data) ==
    LET expenses_df == IF file.exists THEN read_csv(file) ELSE <<>>
        data == with_id(expense_data, "expense_id", next_expense_id(expenses_df))
        new_df == IF expenses_df = <<>> THEN <<[idx |-> 0, row |-> data]>> ELSE concat(expenses_df, data)
    IN  [file |-> to_csv(new_df), ret |-> TRUE]

\* load_expenses_data(user_id): the DataFrames the call can return
load_expenses_data(file, user_id) ==
    IF ~file.exists THEN {<<>>}
    ELSE LET expenses_df == read_csv(file)
             user_expenses == filter_user(expenses_df, user_id)
         IN  IF expenses_df = <<>> THEN {<<>>}
             ELSE IF user_expenses # <<>> THEN sort_values_desc(user_expenses, "date")
             ELSE {user_expenses}

owns_anyone(row, user_id) == TRUE

\* expense['user_id'] == user_id, task['user_id'] == user_id
owns(row, user_id) == row.user_id = user_id

delete_expense_clamp(file, expense_index, user_id) ==
    IF ~file.exists THEN [file |-> file, ret |-> FALSE]
    ELSE LET expenses_df == read_csv(file)
             i == IF expense_index \in Labels(expenses_df) THEN expense_index ELSE Len(expenses_df) - 1
         IN  IF expenses_df = <<>> THEN [file |-> file, ret |-> FALSE]
             ELSE IF owns(loc(expenses_df, i), user_id)
                  THEN [file |-> to_csv(drop(expenses_df, i)), ret |-> TRUE]
                  ELSE [file |-> file, ret |-> FALSE]

\* delete_expense(expense_index, user_id): [file, ret]
delete_expense(file, expense_index, user_id) ==
    IF ~file.exists THEN [file |-> file, ret |-> FALSE]
    ELSE LET expenses_df == read_csv(file)
         IN  IF expenses_df = <<>> THEN [file |-> file, ret |-> FALSE]
             ELSE IF expense_index \in Labels(expenses_df) /\ owns(loc(expenses_df, expense_index), user_id)
                  THEN [file |-> to_csv(drop(expenses_df, expense_index)), ret |-> TRUE]
                  ELSE [file |-> file, ret |-> FALSE]

----------------------------------------------------------------------------
(* utils/data_utils.py: backlog *)

\* task_id = len(backlog_df) + 1
next_task_id(backlog_df) == Len(backlog_df) + 1

\* save_backlog_item(task_data): [file, ret]
save_backlog_item(file, task_data) ==
    LET backlog_df == IF file.exists THEN read_csv(file) ELSE <<>>
        data == with_id(task_data, "task_id", next_task_id(backlog_df))
        new_df == IF backlog_df = <<>> THEN <<[idx |-> 0, row |-> data]>> ELSE concat(backlog_df, data)
    IN  [file |-> to_csv(new_df), ret |-> TRUE]

\* load_backlog_data(user_id): the DataFrames the call can return
load_backlog_data(file, user_id) ==
    IF ~file.exists THEN {<<>>}
    ELSE LET backlog_df == read_csv(file)
             user_tasks == filter_user(backlog_df, user_id)
         IN  IF backlog_df = <<>> THEN {<<>>}
             ELSE IF user_tasks # <<>> THEN sort_values_desc(user_tasks, "created_at")
             ELSE {user_tasks}

set_status_all(backlog_df, task_index, new_status, t) ==
    [k \in 1..Len(backlog_df) |->
        [idx |-> backlog_df[k].idx,
         row |-> [backlog_df[k].row EXCEPT !.status = new_status, !.updated_at = Strftime(t)]]]

\* backlog_df.loc[task_index, 'status'] = new_status
\* backlog_df.loc[task_index, 'updated_at'] = datetime.now().strftime(...)
set_status(backlog_df, task_index, new_status, t) ==
    [k \in 1..Len(backlog_df) |->
        IF backlog_df[k].idx = task_index
        THEN [idx |-> task_index,
              row |-> [backlog_df[k].row EXCEPT !.status = new_status, !.updated_at = Strftime(t)]]
        ELSE backlog_df[k]]

\* update_backlog_status(task_index, user_id, new_status) at time t: [file, ret]
update_backlog_status(file, task_index, user_id, new_status, t) ==
    IF ~file.exists THEN [file |-> file, ret |-> FALSE]
    ELSE LET backlog_df == read_csv(file)
         IN  IF backlog_df = <<>> THEN [file |-> file, ret |-> FALSE]
             ELSE IF task_index \in Labels(backlog_df) /\ owns(loc(backlog_df, task_index), user_id)
                  THEN [file |-> to_csv(set_status(backlog_df, task_index, new_status, t)), ret |-> TRUE]
                  ELSE [file |-> file, ret |-> FALSE]

\* delete_backlog_item(task_index, user_id): [file, ret]
delete_backlog_item(file, task_index, user_id) ==
    IF ~file.exists THEN [file |-> file, ret |-> FALSE]
    ELSE LET backlog_df == read_csv(file)
         IN  IF backlog_df = <<>> THEN [file |-> file, ret |-> FALSE]
             ELSE IF task_index \in Labels(backlog_df) /\ owns(loc(backlog_df, task_index), user_id)
                  THEN [file |-> to_csv(drop(backlog_df, task_index)), ret |-> TRUE]
                  ELSE [file |-> file, ret |-> FALSE]

----------------------------------------------------------------------------
(* utils/auth_utils.py *)

\* hashlib.sha256(password.encode()).hexdigest(): one digest per password
hash_password(password) == <<"#">> \o password

username_taken_exact(existing_users, username) ==
    username \in {existing_users[k].row.username : k \in 1..Len(existing_users)}

\* user_data['username'].lower() in existing_users['username'].str.lower().values
username_taken(existing_users, username) ==
    Lower(username) \in {Lower(existing_users[k].row.username) : k \in 1..Len(existing_users)}

\* user_data['email'].lower() in existing_users['email'].str.lower().values
email_taken(existing_users, email) ==
    Lower(email) \in {Lower(existing_users[k].row.email) : k \in 1..Len(existing_users)}

next_user_id_same(existing_users) ==
    IF existing_users # <<>> THEN MaxId(existing_users, "user_id") ELSE 1

\* existing_users['user_id'].max() + 1, or 1 for an empty table
next_user_id(existing_users) ==
    IF existing_users # <<>> THEN MaxId(existing_users, "user_id") + 1 ELSE 1

\* register_user(user_data) at time t: [file, ret, err]; err is what the call
\* leaves in st.session_state.registration_error
register_user(file, user_data, t) ==
    LET existing_users == IF file.exists THEN read_users_csv(file) ELSE <<>>
        new_user == [user_id |-> next_user_id(existing_users),
                     username |-> Strip(user_data.username),
                     email |-> Lower(Strip(user_data.email)),
                     password_hash |-> hash_password(user_data.password),
                     full_name |-> Strip(user_data.full_name),
                     created_at |-> Strftime(t),
                     last_login |-> PyNone,
                     is_active |-> TRUE]
        users_df == IF existing_users = <<>> THEN <<[idx |-> 0, row |-> new_user]>>
                    ELSE concat(existing_users, new_user)
    IN  \* .str.lower() raises on a numeric username column, the except
        \* branch returns False
        IF existing_users # <<>> /\ IsInt64(existing_users[1].row.username)
        THEN [file |-> file, ret |-> FALSE, err |-> "Registration error"]
        ELSE IF existing_users # <<>> /\ username_taken(existing_users, user_data.username)
        THEN [file |-> file, ret |-> FALSE, err |-> "Username already exists"]
        ELSE IF existing_users # <<>> /\ email_taken(existing_users, user_data.email)
        THEN [file |-> file, ret |-> FALSE, err |-> "Email already exists"]
        \* user_data.get('full_name', '') is None when the key holds None:
        \* None.strip() raises, the except branch returns False
        ELSE IF user_data.full_name = PyNone
        THEN [file |-> file, ret |-> FALSE, err |-> "Registration error"]
        ELSE [file |-> to_csv(users_df), ret |-> TRUE, err |-> "None"]

----------------------------------------------------------------------------
(* The records the forms build (modules/expense_tracker.py, modules/backlog.py) *)

\* add_expense_form: date_input has max_value today; notes is optional
ExpenseInputs ==
    [user_id : UserIds,
     date : {Strftime(d) : d \in Epoch..now},
     amount : {<<"5">>},
     category : {<<"F">>},
     description : {<<"a">>},
     payment_method : {<<"C">>},
     notes : {<<>>, <<"m">>},
     created_at : {Strftime(now)}]

\* add_task_form: due date, estimated amount and notes are optional and left
\* empty here (None, None and '')
TaskInputs ==
    {[user_id |-> u, title |-> <<"a">>, description |-> <<"b">>, category |-> <<"B">>,
      priority |-> <<"X">>, status |-> s, due_date |-> o[1], estimated_amount |-> o[2],
      notes |-> o[3], created_at |-> Strftime(now), updated_at |-> Strftime(now)] :
        u \in UserIds, s \in Statuses,
        o \in {<<PyNone, PyNone, <<>> >>}}

\* what register_user can be handed: usernames and emails that differ in case
\* or in surrounding blanks; show_register_form passes full_name None when
\* the field is left empty
RegistrationInputs ==
    [username : {<<"b">>, <<"B">>, <<" ", "b">>, <<"c">>},
     email : {<<"x">>, <<"X">>, <<"x", " ">>, <<"y">>},
     password : {<<"p">>},
     full_name : {PyNone, <<"F">>}]

----------------------------------------------------------------------------
(* State machine *)

\* st.session_state of utils/auth_utils.py: the keys it holds and their values
SessionKeys == {"authenticated", "username", "user_id"}

\* initialize_session_state(): the keys that are missing get False, None, None
initialize_session_state(state) ==
    [k \in (DOMAIN state) \cup SessionKeys |->
        IF k \in DOMAIN state THEN state[k]
        ELSE IF k = "authenticated" THEN FALSE ELSE PyNone]

\* check_authentication(): st.session_state.get('authenticated', False)
check_authentication(state) ==
    IF "authenticated" \in DOMAIN state THEN state.authenticated ELSE FALSE


Init ==
    /\ users = Absent
    /\ expenses = Absent
    /\ backlog = Absent
    /\ now = Epoch
    /\ call = [op |-> "start"]
    /\ ret = PyNone
    /\ registration_error = "None"
    /\ rates_cache = [b \in {} |-> PyNone]
    /\ requested = [b \in {} |-> 0]
    /\ clock = 0
    /\ session = initialize_session_state(<< >>)
    /\ selected = [on |-> FALSE]
    /\ pending = [c \in Callers |-> [pc |-> "idle"]]

create_if_absent_always(file) == HeaderOnly

\* if not os.path.exists(path): pd.DataFrame(columns=[...]).to_csv(path, index=False)
create_if_absent(file) == IF file.exists THEN file ELSE HeaderOnly

\* initialize_data_files(): creates the files that do not exist
initialize_data_files ==
    /\ users' = create_if_absent(users)
    /\ expenses' = create_if_absent(expenses)
    /\ backlog' = create_if_absent(backlog)
    /\ call' = [op |-> "initialize_data_files"]
    /\ ret' = PyNone
    /\ UNCHANGED <<now, registration_error, rates_vars, session_vars>>

\* datetime.now() advances
Tick ==
    /\ now < Epoch + MaxTicks
    /\ now' = now + 1
    /\ UNCHANGED <<users, expenses, backlog, call, ret, registration_error, rates_vars, session_vars>>

RowCount == Len(expenses.rows) + Len(backlog.rows)

SaveExpense ==
    /\ RowCount < MaxRows
    /\ \E expense_data \in ExpenseInputs :
        LET r == save_expense(expenses, expense_data) IN
        /\ expenses' = r.file
        /\ ret' = r.ret
        /\ call' = [op |-> "save_expense", data |-> expense_data]
    /\ UNCHANGED <<users, backlog, now, registration_error, rates_vars, session_vars>>

LoadExpenses ==
    /\ \E user_id \in UserIds : \E df \in load_expenses_data(expenses, user_id) :
        /\ ret' = df
        /\ call' = [op |-> "load_expenses_data", user_id |-> user_id]
    /\ UNCHANGED <<users, expenses, backlog, now, registration_error, rates_vars, session_vars>>

DeleteExpenseCall(expense_index, user_id) ==
    LET r == delete_expense(expenses, expense_index, user_id) IN
    /\ expenses' = r.file
    /\ ret' = r.ret
    /\ call' = [op |-> "delete_expense", index |-> expense_index, user_id |-> user_id]
    /\ UNCHANGED <<users, backlog, now, registration_error, rates_vars, session_vars>>

DeleteExpense == \E expense_index \in Indexes, user_id \in UserIds : DeleteExpenseCall(expense_index, user_id)

SaveBacklogItem ==
    /\ RowCount < MaxRows
    /\ \E task_data \in TaskInputs :
        LET r == save_backlog_item(backlog, task_data) IN
        /\ backlog' = r.file
        /\ ret' = r.ret
        /\ call' = [op |-> "save_backlog_item", data |-> task_data]
    /\ UNCHANGED <<users, expenses, now, registration_error, rates_vars, session_vars>>

LoadBacklog ==
    /\ \E user_id \in UserIds : \E df \in load_backlog_data(backlog, user_id) :
        /\ ret' = df
        /\ call' = [op |-> "load_backlog_data", user_id |-> user_id]
    /\ UNCHANGED <<users, expenses, backlog, now, registration_error, rates_vars, session_vars>>

UpdateBacklogStatusCall(task_index, user_id, new_status) ==
    LET r == update_backlog_status(backlog, task_index, user_id, new_status, now) IN
    /\ backlog' = r.file
    /\ ret' = r.ret
    /\ call' = [op |-> "update_backlog_status", index |-> task_index, user_id |-> user_id,
                status |-> new_status]
    /\ UNCHANGED <<users, expenses, now, registration_error, rates_vars, session_vars>>

UpdateBacklogStatus ==
    \E task_index \in Indexes, user_id \in UserIds, new_status \in Statuses :
        UpdateBacklogStatusCall(task_index, user_id, new_status)

DeleteBacklogItemCall(task_index, user_id) ==
    LET r == delete_backlog_item(backlog, task_index, user_id) IN
    /\ backlog' = r.file
    /\ ret' = r.ret
    /\ call' = [op |-> "delete_backlog_item", index |-> task_index, user_id |-> user_id]
    /\ UNCHANGED <<users, expenses, now, registration_error, rates_vars, session_vars>>

DeleteBacklogItem == \E task_index \in Indexes, user_id \in UserIds : DeleteBacklogItemCall(task_index, user_id)

Next ==
    \/ initialize_data_files
    \/ Tick
    \/ SaveExpense
    \/ LoadExpenses
    \/ DeleteExpense
    \/ SaveBacklogItem
    \/ LoadBacklog
    \/ UpdateBacklogStatus
    \/ DeleteBacklogItem

Spec == Init /\ [][Next]_vars

RegisterUserCall(user_data) ==
    LET r == register_user(users, user_data, now) IN
    /\ r.ret => Len(users.rows) < MaxUsers
    /\ users' = r.file
    /\ ret' = r.ret
    /\ registration_error' = r.err
    /\ call' = [op |-> "register_user", data |-> user_data]
    /\ UNCHANGED <<expenses, backlog, now, rates_vars, session_vars>>

RegisterUser == \E user_data \in RegistrationInputs : RegisterUserCall(user_data)

NextUsers ==
    \/ initialize_data_files
    \/ Tick
    \/ RegisterUser

\* the users table alone: the expense and task files are not touched
SpecUsers == Init /\ [][NextUsers]_vars

----------------------------------------------------------------------------
(* The record store when reading or writing a file fails (pd.read_csv or
   DataFrame.to_csv raises): the call goes to its except branch, if it has
   one, and the file stays as it was *)

\* what ret holds when the call ended with an exception raised to its caller
Raised == <<"<raised>">>

\* initialize_data_files has no try: the to_csv of the first absent file
\* that cannot be written raises out of the function, after the files before
\* it have been created
InitializeDataFilesFails ==
    /\ \E point \in 1..3 :
        /\ ~(<<users, expenses, backlog>>[point]).exists
        /\ users' = IF point > 1 THEN create_if_absent(users) ELSE users
        /\ expenses' = IF point > 2 THEN create_if_absent(expenses) ELSE expenses
        /\ backlog' = backlog
    /\ ret' = Raised
    /\ call' = [op |-> "initialize_data_files", io |-> "write"]
    /\ UNCHANGED <<now, registration_error, rates_vars, session_vars>>

\* save_expense: read_csv (when the file exists) or to_csv raises; except
\* returns False
SaveExpenseFails ==
    /\ \E expense_data \in ExpenseInputs, io \in {"read", "write"} :
        /\ io = "read" => expenses.exists
        /\ call' = [op |-> "save_expense", data |-> expense_data, io |-> io]
    /\ ret' = FALSE
    /\ UNCHANGED <<users, expenses, backlog, now, registration_error, rates_vars, session_vars>>

\* load_expenses_data: read_csv raises; except returns pd.DataFrame()
LoadExpensesFails ==
    /\ expenses.exists
    /\ \E user_id \in UserIds : call' = [op |-> "load_expenses_data", user_id |-> user_id, io |-> "read"]
    /\ ret' = <<>>
    /\ UNCHANGED <<users, expenses, backlog, now, registration_error, rates_vars, session_vars>>

\* delete_expense: read_csv raises, or to_csv after the row was dropped
DeleteExpenseFails ==
    /\ expenses.exists
    /\ \E expense_index \in Indexes, user_id \in UserIds, io \in {"read", "write"} :
        /\ io = "write" => delete_expense(expenses, expense_index, user_id).ret
        /\ call' = [op |-> "delete_expense", index |-> expense_index, user_id |-> user_id, io |-> io]
    /\ ret' = FALSE
    /\ UNCHANGED <<users, expenses, backlog, now, registration_error, rates_vars, session_vars>>

SaveBacklogItemFails ==
    /\ \E task_data \in TaskInputs, io \in {"read", "write"} :
        /\ io = "read" => backlog.exists
        /\ call' = [op |-> "save_backlog_item", data |-> task_data, io |-> io]
    /\ ret' = FALSE
    /\ UNCHANGED <<users, expenses, backlog, now, registration_error, rates_vars, session_vars>>

LoadBacklogFails ==
    /\ backlog.exists
    /\ \E user_id \in UserIds : call' = [op |-> "load_backlog_data", user_id |-> user_id, io |-> "read"]
    /\ ret' = <<>>
    /\ UNCHANGED <<users, expenses, backlog, now, registration_error, rates_vars, session_vars>>

UpdateBacklogStatusFails ==
    /\ backlog.exists
    /\ \E task_index \in Indexes, user_id \in UserIds, new_status \in Statuses, io \in {"read", "write"} :
        /\ io = "write" => update_backlog_status(backlog, task_index, user_id, new_status, now).ret
        /\ call' = [op |-> "update_backlog_status", index |-> task_index, user_id |-> user_id,
                    status |-> new_status, io |-> io]
    /\ ret' = FALSE
    /\ UNCHANGED <<users, expenses, backlog, now, registration_error, rates_vars, session_vars>>

DeleteBacklogItemFails ==
    /\ backlog.exists
    /\ \E task_index \in Indexes, user_id \in UserIds, io \in {"read", "write"} :
        /\ io = "write" => delete_backlog_item(backlog, task_index, user_id).ret
        /\ call' = [op |-> "delete_backlog_item", index |-> task_index, user_id |-> user_id, io |-> io]
    /\ ret' = FALSE
    /\ UNCHANGED <<users, expenses, backlog, now, registration_error, rates_vars, session_vars>>

\* register_user: except stores "Registration error: ..." and returns False
RegisterUserFails ==
    /\ \E user_data \in RegistrationInputs, io \in {"read", "write"} :
        /\ io = "read" => users.exists
        /\ io = "write" => register_user(users, user_data, now).ret
        /\ call' = [op |-> "register_user", data |-> user_data, io |-> io]
    /\ ret' = FALSE
    /\ registration_error' = "Registration error"
    /\ UNCHANGED <<users, expenses, backlog, now, rates_vars, session_vars>>

\* the three tables together hold at most MaxRows rows
Insert ==
    /\ Len(users.rows) + RowCount < MaxRows
    /\ (SaveExpense \/ SaveBacklogItem \/ RegisterUser)

\* the tables are filled by the saves and the registrations; every operation
\* can meet a failing read or write
NextIO ==
    \/ initialize_data_files
    \/ Insert
    \/ InitializeDataFilesFails
    \/ SaveExpenseFails
    \/ LoadExpensesFails
    \/ DeleteExpenseFails
    \/ SaveBacklogItemFails
    \/ LoadBacklogFails
    \/ UpdateBacklogStatusFails
    \/ DeleteBacklogItemFails
    \/ RegisterUserFails

SpecIO == Init /\ [][NextIO]_vars

----------------------------------------------------------------------------
(* utils/api_utils.py, modules/currency_converter.py: exchange rates *)

\* @st.cache_data(ttl=3600), in seconds
ttl == 3600

\* seconds between two instants of the clock, and number of instants after
\* the first
ClockStep == 1800
MaxClockSteps == 3

\* base currencies of the popular pairs shown on the page
Currencies == {"USD", "EUR"}

\* what get_exchange_rates returns: the rates of the response, or None when
\* the request fails
Rates == <<"rates">>
Responses == {Rates, PyNone}

\* the entry of base is in the cache and younger than ttl
cache_hit(cache, base_currency, t) ==
    base_currency \in DOMAIN cache /\ t - cache[base_currency].at < ttl

cache_put(cache, base_currency, t, value) ==
    [b \in DOMAIN cache \cup {base_currency} |->
        IF b = base_currency THEN [at |-> t, value |-> value] ELSE cache[b]]

\* get_cached_exchange_rates(base_currency) at time t, response being what
\* the network would answer: [cache, ret, fetched]; fetched is the set of
\* base currencies an HTTP request was sent for
get_cached_exchange_rates(cache, base_currency, t, response) ==
    IF cache_hit(cache, base_currency, t)
    THEN [cache |-> cache, ret |-> cache[base_currency].value, fetched |-> {}]
    ELSE [cache |-> cache_put(cache, base_currency, t, response), ret |-> response,
          fetched |-> {base_currency}]

\* convert_amount(amount, from_currency, to_currency): the rates are looked
\* up unless the two currencies are the same
convert_amount(cache, from_currency, to_currency, t, response) ==
    IF from_currency = to_currency
    THEN [cache |-> cache, ret |-> Rates, fetched |-> {}, bases |-> {}]
    ELSE LET r == get_cached_exchange_rates(cache, from_currency, t, response)
         IN  [cache |-> r.cache, ret |-> r.ret, fetched |-> r.fetched, bases |-> {from_currency}]

\* show_currency_converter(): get_exchange_rates(from_currency) when Convert
\* was pressed with two different currencies, then get_exchange_rates(base)
\* for every popular pair; the cache is not used
show_currency_converter(pressed, from_currency, to_currency) ==
    (IF pressed /\ from_currency # to_currency THEN {from_currency} ELSE {}) \cup Currencies

\* the requests of this call are the last ones for their base currencies
note_requests(bases) ==
    [b \in DOMAIN requested \cup bases |-> IF b \in bases THEN clock ELSE requested[b]]

ClockTick ==
    /\ clock < MaxClockSteps * ClockStep
    /\ clock' = clock + ClockStep
    /\ UNCHANGED <<users, expenses, backlog, now, call, ret, registration_error, rates_cache, requested, session_vars>>

GetCachedExchangeRates ==
    /\ \E base_currency \in Currencies, response \in Responses :
        LET r == get_cached_exchange_rates(rates_cache, base_currency, clock, response) IN
        /\ rates_cache' = r.cache
        /\ ret' = r.ret
        /\ requested' = note_requests({base_currency})
        /\ call' = [op |-> "get_cached_exchange_rates", bases |-> {base_currency}, fetched |-> r.fetched]
    /\ UNCHANGED <<users, expenses, backlog, now, registration_error, clock, session_vars>>

ConvertAmount ==
    /\ \E from_currency \in Currencies, to_currency \in Currencies, response \in Responses :
        LET r == convert_amount(rates_cache, from_currency, to_currency, clock, response) IN
        /\ rates_cache' = r.cache
        /\ ret' = r.ret
        /\ requested' = note_requests(r.bases)
        /\ call' = [op |-> "convert_amount", bases |-> r.bases, fetched |-> r.fetched]
    /\ UNCHANGED <<users, expenses, backlog, now, registration_error, clock, session_vars>>

ShowCurrencyConverter ==
    /\ \E pressed \in BOOLEAN, from_currency \in Currencies, to_currency \in Currencies :
        LET bases == show_currency_converter(pressed, from_currency, to_currency) IN
        /\ requested' = note_requests(bases)
        /\ call' = [op |-> "show_currency_converter", bases |-> bases, fetched |-> bases]
    /\ ret' = PyNone
    /\ UNCHANGED <<users, expenses, backlog, now, registration_error, rates_cache, clock, session_vars>>

NextRates ==
    \/ ClockTick
    \/ GetCachedExchangeRates
    \/ ConvertAmount
    \/ ShowCurrencyConverter

\* the exchange-rate lookups of one process
SpecRates == Init /\ [][NextRates]_vars

----------------------------------------------------------------------------
(* utils/calculations.py.  Amounts and ages are passed in as whole numbers,
   annual rates in tenths of a percent (the step of the rate inputs of
   modules/calculators.py).  A Python float is a fixed-point number: an
   amount x stands for x / Scale dollars, a rate or growth factor f for
   f / One.  round(x, 2) gives a number of cents. *)

Scale == 10000

\* the factor 1.0
One == Scale * Scale

\* a / b rounded to the nearest integer, halves to the even one (b > 0)
RoundDiv(a, b) ==
    LET q == a \div b
        m == a % b
    IN  IF 2 * m < b THEN q
        ELSE IF 2 * m > b THEN q + 1
        ELSE IF q % 2 = 0 THEN q ELSE q + 1

\* x / n for a whole number n of either sign
DivInt(x, n) == IF n < 0 THEN RoundDiv(0 - x, 0 - n) ELSE RoundDiv(x, n)

\* x * f for a factor f, rounded to the nearest number, without leaving 32 bits
Mul(x, f) ==
    LET a == x \div Scale
        b == x % Scale
        c == f \div Scale
        d == f % Scale
    IN  a * c + RoundDiv(a * d + b * c + RoundDiv(b * d, Scale), Scale)

\* the quotient acc and remainder r of a long division by d, carried on for
\* k more decimal digits and rounded
RECURSIVE LongDiv(_, _, _, _)
LongDiv(r, d, k, acc) ==
    IF k = 0 THEN (IF 2 * r >= d THEN acc + 1 ELSE acc)
    ELSE LongDiv((r * 10) % d, d, k - 1, acc * 10 + (r * 10) \div d)

\* x / f for a factor f # 0, without leaving 32 bits: eight decimal digits
\* after the integer quotient, seven when f is too large for that
Div(x, f) ==
    LET n == IF f < 0 THEN 0 - x ELSE x
        d == IF f < 0 THEN 0 - f ELSE f
        large == d >= 2 * One
        dd == IF large THEN RoundDiv(d, 10) ELSE d
    IN  LongDiv(n % dd, dd, IF large THEN 7 ELSE 8, n \div dd)

\* round(x, 2), in cents
round2(x) == RoundDiv(x, Scale \div 100)

\* base ** n, by repeated squaring
RECURSIVE Power(_, _)
Power(base, n) ==
    IF n = 0 THEN One
    ELSE IF n < 0 THEN Div(One, Power(base, 0 - n))
    ELSE LET half == Power(base, n \div 2)
             square == Mul(half, half)
         IN  IF n % 2 = 0 THEN square ELSE Mul(square, base)

\* annual_rate / (12 * 100), the annual rate given in tenths of a percent
monthly_rate_of(annual_rate) == RoundDiv(annual_rate * (One \div 1000), 12)

\* raise ValueError(...)
ValueError == [raises |-> TRUE]

calculate_emi_interest_only(principal, annual_rate, tenure_years) ==
    LET monthly_rate == monthly_rate_of(annual_rate)
        total_months == tenure_years * 12
        growth == Power(One + monthly_rate, total_months)
        divisor == IF monthly_rate = 0 THEN total_months ELSE growth
        emi == IF monthly_rate = 0 THEN DivInt(principal * Scale, divisor)
               ELSE Div(Mul(Mul(principal * Scale, monthly_rate), growth), divisor)
        total_payment == emi * total_months
        total_interest == total_payment - principal * Scale
    IN  IF divisor = 0 THEN ValueError
        ELSE [raises |-> FALSE, emi |-> round2(emi), total_payment |-> round2(total_payment),
              total_interest |-> round2(total_interest)]

\* calculate_emi(principal, annual_rate, tenure_years): a division by zero
\* months is caught and raised again as ValueError
calculate_emi(principal, annual_rate, tenure_years) ==
    LET monthly_rate == monthly_rate_of(annual_rate)
        total_months == tenure_years * 12
        growth == Power(One + monthly_rate, total_months)
        divisor == IF monthly_rate = 0 THEN total_months ELSE growth - One
        emi == IF monthly_rate = 0 THEN DivInt(principal * Scale, divisor)
               ELSE Div(Mul(Mul(principal * Scale, monthly_rate), growth), divisor)
        total_payment == emi * total_months
        total_interest == total_payment - principal * Scale
    IN  IF divisor = 0 THEN ValueError
        ELSE [raises |-> FALSE, emi |-> round2(emi), total_payment |-> round2(total_payment),
              total_interest |-> round2(total_interest)]

\* for month in range(total_months): current_amount = current_amount * (1 + monthly_rate)
\*                                   current_amount += monthly_contribution
month_step_contribution_first(current_amount, monthly_rate, monthly_contribution) ==
    Mul(current_amount + monthly_contribution * Scale, One + monthly_rate)

\* one month of the loop: the interest, then the contribution
month_step(current_amount, monthly_rate, monthly_contribution) ==
    Mul(current_amount, One + monthly_rate) + monthly_contribution * Scale

RECURSIVE Grow(_, _, _, _)
Grow(current_amount, monthly_rate, monthly_contribution, months) ==
    IF months <= 0 THEN current_amount
    ELSE Grow(month_step(current_amount, monthly_rate, monthly_contribution),
              monthly_rate, monthly_contribution, months - 1)

\* calculate_compound_interest(principal, monthly_contribution, annual_return, years)
calculate_compound_interest(principal, monthly_contribution, annual_return, years) ==
    LET monthly_rate == monthly_rate_of(annual_return)
        total_months == years * 12
        current_amount == Grow(principal * Scale, monthly_rate, monthly_contribution, total_months)
        total_invested == (principal + (IF total_months > 0 THEN total_months ELSE 0) * monthly_contribution) * Scale
    IN  [raises |-> FALSE, final_amount |-> round2(current_amount),
         total_invested |-> round2(total_invested),
         total_returns |-> round2(current_amount - total_invested)]

Single == "Single"
MarriedFilingJointly == "Married Filing Jointly"

tax_brackets_flat ==
    <<[limit |-> 10275, inf |-> FALSE, rate |-> 10],
      [limit |-> 41775, inf |-> FALSE, rate |-> 12],
      [limit |-> 89450, inf |-> FALSE, rate |-> 22],
      [limit |-> 190750, inf |-> FALSE, rate |-> 24],
      [limit |-> 364200, inf |-> FALSE, rate |-> 32],
      [limit |-> 462550, inf |-> FALSE, rate |-> 35],
      [limit |-> 0, inf |-> TRUE, rate |-> 35]>>

\* tax_brackets: (limit, rate) with the rate in percent; the last limit is
\* float('inf')
tax_brackets ==
    <<[limit |-> 10275, inf |-> FALSE, rate |-> 10],
      [limit |-> 41775, inf |-> FALSE, rate |-> 12],
      [limit |-> 89450, inf |-> FALSE, rate |-> 22],
      [limit |-> 190750, inf |-> FALSE, rate |-> 24],
      [limit |-> 364200, inf |-> FALSE, rate |-> 32],
      [limit |-> 462550, inf |-> FALSE, rate |-> 35],
      [limit |-> 0, inf |-> TRUE, rate |-> 37]>>

halve_brackets(brackets) ==
    [k \in DOMAIN brackets |->
        IF brackets[k].inf THEN brackets[k]
        ELSE [brackets[k] EXCEPT !.limit = brackets[k].limit \div 2]]

\* [(limit * 2 if limit != float('inf') else limit, rate) for limit, rate in tax_brackets]
double_brackets(brackets) ==
    [k \in DOMAIN brackets |->
        IF brackets[k].inf THEN brackets[k]
        ELSE [brackets[k] EXCEPT !.limit = brackets[k].limit * 2]]

\* the loop over the brackets from the k-th on; the tax is in cents
\* (dollars times percent)
RECURSIVE bracket_loop(_, _, _, _, _)
bracket_loop(brackets, k, remaining_income, previous_limit, federal_tax) ==
    IF k > Len(brackets) \/ remaining_income <= 0 THEN federal_tax
    ELSE LET width == brackets[k].limit - previous_limit
             taxable_at_bracket == IF brackets[k].inf \/ remaining_income < width
                                   THEN remaining_income ELSE width
         IN  bracket_loop(brackets, k + 1, remaining_income - taxable_at_bracket,
                          brackets[k].limit, federal_tax + taxable_at_bracket * brackets[k].rate)

\* calculate_tax(annual_income, filing_status, standard_deduction, other_deductions):
\* amounts of the result in cents, effective_rate in hundredths of a percent
calculate_tax(annual_income, filing_status, standard_deduction, other_deductions) ==
    LET total_deductions == standard_deduction + other_deductions
        taxable_income == IF annual_income - total_deductions > 0
                          THEN annual_income - total_deductions ELSE 0
        brackets == IF filing_status = MarriedFilingJointly
                    THEN double_brackets(tax_brackets) ELSE tax_brackets
        federal_tax == bracket_loop(brackets, 1, taxable_income, 0, 0)
    IN  [raises |-> FALSE,
         annual_income |-> annual_income * 100,
         total_deductions |-> total_deductions * 100,
         taxable_income |-> taxable_income * 100,
         federal_tax |-> federal_tax,
         after_tax_income |-> annual_income * 100 - federal_tax,
         effective_rate |-> IF annual_income > 0
                            THEN (federal_tax \div annual_income) * 100
                                 + RoundDiv((federal_tax % annual_income) * 100, annual_income)
                            ELSE 0]

\* calculate_retirement_savings(current_age, retirement_age, current_savings,
\*                              monthly_contribution, annual_return)
calculate_retirement_savings(current_age, retirement_age, current_savings, monthly_contribution, annual_return) ==
    LET years_to_retirement == retirement_age - current_age
        r == calculate_compound_interest(current_savings, monthly_contribution, annual_return,
                                         years_to_retirement)
    IN  IF years_to_retirement <= 0 THEN ValueError
        ELSE [raises |-> FALSE,
              years_to_retirement |-> years_to_retirement,
              final_amount |-> r.final_amount,
              total_invested |-> r.total_invested,
              total_returns |-> r.total_returns,
              \* (final_amount * 0.04) / 12
              monthly_withdrawal |-> RoundDiv(r.final_amount * 4, 12 * 100)]

calculate_mortgage_payment_unguarded(home_price, down_payment, annual_rate, loan_term_years) ==
    LET loan_amount == home_price - down_payment
        r == calculate_emi(loan_amount, annual_rate, loan_term_years)
    IN  IF r.raises \/ home_price = 0 THEN ValueError
        ELSE [raises |-> FALSE,
              home_price |-> home_price * 100,
              down_payment |-> down_payment * 100,
              down_payment_percentage |->
                  IF home_price > 0 THEN RoundDiv(down_payment * 1000, home_price)
                  ELSE RoundDiv((0 - down_payment) * 1000, 0 - home_price),
              loan_amount |-> loan_amount * 100,
              monthly_payment |-> r.emi,
              total_payment |-> r.total_payment,
              total_interest |-> r.total_interest,
              loan_term_years |-> loan_term_years]

\* calculate_mortgage_payment(home_price, down_payment, annual_rate, loan_term_years):
\* the ValueError of calculate_emi and the division by a zero home_price are
\* raised again as ValueError; down_payment_percentage is in tenths of a percent
calculate_mortgage_payment(home_price, down_payment, annual_rate, loan_term_years) ==
    LET loan_amount == home_price - down_payment
        r == calculate_emi(loan_amount, annual_rate, loan_term_years)
    IN  IF loan_amount <= 0 THEN ValueError
        ELSE IF r.raises \/ home_price = 0 THEN ValueError
        ELSE [raises |-> FALSE,
              home_price |-> home_price * 100,
              down_payment |-> down_payment * 100,
              down_payment_percentage |->
                  IF home_price > 0 THEN RoundDiv(down_payment * 1000, home_price)
                  ELSE RoundDiv((0 - down_payment) * 1000, 0 - home_price),
              loan_amount |-> loan_amount * 100,
              monthly_payment |-> r.emi,
              total_payment |-> r.total_payment,
              total_interest |-> r.total_interest,
              loan_term_years |-> loan_term_years]

goal_met_strict(remaining_amount) == remaining_amount < 0

\* if remaining_amount <= 0
goal_met(remaining_amount) == remaining_amount <= 0

\* calculate_savings_goal(target_amount, current_savings, annual_return, time_period_years)
calculate_savings_goal(target_amount, current_savings, annual_return, time_period_years) ==
    LET remaining_amount == target_amount - current_savings
        monthly_rate == monthly_rate_of(annual_return)
        total_months == time_period_years * 12
        growth == Power(One + monthly_rate, total_months)
        future_value_current == Mul(current_savings * Scale, growth)
        amount_needed == target_amount * Scale - future_value_current
        divisor == IF monthly_rate = 0 THEN total_months ELSE growth - One
        monthly_savings_required ==
            IF amount_needed <= 0 THEN 0
            ELSE IF monthly_rate = 0 THEN DivInt(amount_needed, divisor)
            ELSE Div(Mul(amount_needed, monthly_rate), divisor)
    IN  IF goal_met(remaining_amount)
        THEN [raises |-> FALSE,
              target_amount |-> target_amount * 100,
              current_savings |-> current_savings * 100,
              remaining_amount |-> 0,
              monthly_savings_required |-> 0,
              goal_achieved |-> TRUE]
        ELSE IF amount_needed > 0 /\ divisor = 0 THEN ValueError
        ELSE [raises |-> FALSE,
              target_amount |-> target_amount * 100,
              current_savings |-> current_savings * 100,
              remaining_amount |-> remaining_amount * 100,
              monthly_savings_required |-> round2(monthly_savings_required),
              time_period_years |-> time_period_years,
              goal_achieved |-> FALSE]

----------------------------------------------------------------------------
(* The calculators applied to arguments of either sign *)

\* amounts in dollars: principal, savings, target, home price, down payment
Amounts == {-1000, 0, 500, 1000}
Contributions == {-100, 0, 100}
\* annual rates in tenths of a percent
AnnualRates == {-120, 0, 120}
\* terms in years
Terms == {-1, 0, 1, 2}
Ages == {30, 31, 32}
\* incomes at the bracket limits of both filing statuses, next to them and between them
Incomes == {-5000, 0, 5000, 10275, 10276, 20550, 27050, 40000, 41775, 41776, 83550, 89450, 100000,
            178900, 190750, 364200, 381500, 462550, 500000, 728400, 925100, 1000000}
Deductions == {0, 12950, 25900}
OtherDeductions == {-1000, 0, 5000}
FilingStatuses == {Single, MarriedFilingJointly, "Head of Household"}

CalculateEmi ==
    /\ \E principal \in Amounts, annual_rate \in AnnualRates, tenure_years \in Terms :
        /\ call' = [op |-> "calculate_emi", principal |-> principal, annual_rate |-> annual_rate,
                    tenure_years |-> tenure_years]
        /\ ret' = calculate_emi(principal, annual_rate, tenure_years)
    /\ UNCHANGED <<users, expenses, backlog, now, registration_error, rates_vars, session_vars>>

CalculateCompoundInterest ==
    /\ \E principal \in Amounts, monthly_contribution \in Contributions,
          annual_return \in AnnualRates, years \in Terms :
        /\ call' = [op |-> "calculate_compound_interest", principal |-> principal,
                    monthly_contribution |-> monthly_contribution, annual_return |-> annual_return,
                    years |-> years]
        /\ ret' = calculate_compound_interest(principal, monthly_contribution, annual_return, years)
    /\ UNCHANGED <<users, expenses, backlog, now, registration_error, rates_vars, session_vars>>

CalculateTax ==
    /\ \E annual_income \in Incomes, filing_status \in FilingStatuses,
          standard_deduction \in Deductions, other_deductions \in OtherDeductions :
        /\ call' = [op |-> "calculate_tax", annual_income |-> annual_income,
                    filing_status |-> filing_status, standard_deduction |-> standard_deduction,
                    other_deductions |-> other_deductions]
        /\ ret' = calculate_tax(annual_income, filing_status, standard_deduction, other_deductions)
    /\ UNCHANGED <<users, expenses, backlog, now, registration_error, rates_vars, session_vars>>

CalculateRetirementSavings ==
    /\ \E current_age \in Ages, retirement_age \in Ages, current_savings \in Amounts,
          monthly_contribution \in Contributions, annual_return \in AnnualRates :
        /\ call' = [op |-> "calculate_retirement_savings", current_age |-> current_age,
                    retirement_age |-> retirement_age, current_savings |-> current_savings,
                    monthly_contribution |-> monthly_contribution, annual_return |-> annual_return]
        /\ ret' = calculate_retirement_savings(current_age, retirement_age, current_savings,
                                               monthly_contribution, annual_return)
    /\ UNCHANGED <<users, expenses, backlog, now, registration_error, rates_vars, session_vars>>

CalculateMortgagePayment ==
    /\ \E home_price \in Amounts, down_payment \in Amounts, annual_rate \in AnnualRates,
          loan_term_years \in Terms :
        /\ call' = [op |-> "calculate_mortgage_payment", home_price |-> home_price,
                    down_payment |-> down_payment, annual_rate |-> annual_rate,
                    loan_term_years |-> loan_term_years]
        /\ ret' = calculate_mortgage_payment(home_price, down_payment, annual_rate, loan_term_years)
    /\ UNCHANGED <<users, expenses, backlog, now, registration_error, rates_vars, session_vars>>

CalculateSavingsGoal ==
    /\ \E target_amount \in Amounts, current_savings \in Amounts, annual_return \in AnnualRates,
          time_period_years \in Terms :
        /\ call' = [op |-> "calculate_savings_goal", target_amount |-> target_amount,
                    current_savings |-> current_savings, annual_return |-> annual_return,
                    time_period_years |-> time_period_years]
        /\ ret' = calculate_savings_goal(target_amount, current_savings, annual_return,
                                         time_period_years)
    /\ UNCHANGED <<users, expenses, backlog, now, registration_error, rates_vars, session_vars>>

\* modules/calculators.py show_emi_calculator: the amortization schedule made
\* from the rounded payment emi (in cents); the balance left after the months
\*   for month in range(1, months + 1): interest_payment = balance * monthly_rate
\*       principal_payment = emi - interest_payment; balance -= principal_payment
\* (the months are run as two halves, the second from the number the first leaves)
RECURSIVE amortization_balance(_, _, _, _)
amortization_balance(balance, monthly_rate, emi, months) ==
    IF months <= 0 THEN balance
    ELSE IF months = 1
    THEN LET interest_payment == Mul(balance, monthly_rate)
             principal_payment == emi * (Scale \div 100) - interest_payment
         IN  balance - principal_payment
    ELSE LET first == months \div 2
             halfway == amortization_balance(balance, monthly_rate, emi, first)
         IN  IF halfway \in Int
             THEN amortization_balance(halfway, monthly_rate, emi, months - first)
             ELSE halfway

\* values of the three inputs of the page: loan amounts from 1000, rates from
\* 0.1 percent (here those whose monthly rate the fixed point holds exactly),
\* tenures from 1 year
LoanAmounts == {1000, 100000}
LoanRates == {12, 75, 90}
LoanTenures == {1, 2, 15}

\* show_emi_calculator with the button pressed: the result of calculate_emi and
\* the schedule; balance is the one after the last month, in cents
ShowEmiCalculator ==
    /\ \E loan_amount \in LoanAmounts, annual_rate \in LoanRates, loan_tenure_years \in LoanTenures :
        LET r == calculate_emi(loan_amount, annual_rate, loan_tenure_years)
            months == loan_tenure_years * 12
            monthly_rate == monthly_rate_of(annual_rate)
        IN  /\ call' = [op |-> "show_emi_calculator", loan_amount |-> loan_amount,
                        annual_rate |-> annual_rate, loan_tenure_years |-> loan_tenure_years]
            /\ ret' = IF r.raises THEN r
                      ELSE [raises |-> FALSE, emi |-> r.emi, total_payment |-> r.total_payment,
                            total_interest |-> r.total_interest, months |-> months,
                            balance |-> round2(amortization_balance(loan_amount * Scale, monthly_rate,
                                                                    r.emi, months))]
    /\ UNCHANGED <<users, expenses, backlog, now, registration_error, rates_vars, session_vars>>

NextCalc ==
    \/ CalculateEmi
    \/ ShowEmiCalculator
    \/ CalculateCompoundInterest
    \/ CalculateTax
    \/ CalculateRetirementSavings
    \/ CalculateMortgagePayment
    \/ CalculateSavingsGoal

SpecCalc == Init /\ [][NextCalc]_vars

----------------------------------------------------------------------------
(* utils/data_utils.py: save_expense and save_backlog_item run by two sessions
   at once.  Nothing locks the file between the read of the table and the
   write of the new one, so a call is two steps. *)

\* the first half of save_expense / save_backlog_item, up to the read:
\*   if os.path.exists(file): df = pd.read_csv(file)  else: df = pd.DataFrame()
save_load(file) == IF file.exists THEN read_csv(file) ELSE <<>>

save_rewrite_merge(file, df, data, col) ==
    LET current == save_load(file)
    IN  to_csv(concat(current, with_id(data, col, Len(df) + 1)))

\* the second half: the id from the length of the table that was read, the new
\* row after that table, and df.to_csv(file, index=False), which replaces
\* whatever the file holds by then
save_rewrite(file, df, data, col) ==
    LET row == with_id(data, col, Len(df) + 1)
        new_df == IF df = <<>> THEN <<[idx |-> 0, row |-> row]>> ELSE concat(df, row)
    IN  to_csv(new_df)

\* the id column of the table a call writes
id_column(op) == IF op = "save_expense" THEN "expense_id" ELSE "task_id"

SaveLoad(c) ==
    /\ pending[c].pc # "loaded"
    /\ RowCount < MaxRows
    /\ \/ \E expense_data \in ExpenseInputs :
            pending' = [pending EXCEPT ![c] = [pc |-> "loaded", op |-> "save_expense",
                                               df |-> save_load(expenses), data |-> expense_data]]
       \/ \E task_data \in TaskInputs :
            pending' = [pending EXCEPT ![c] = [pc |-> "loaded", op |-> "save_backlog_item",
                                               df |-> save_load(backlog), data |-> task_data]]
    /\ UNCHANGED <<users, expenses, backlog, now, call, ret, registration_error, rates_vars,
                   session, selected>>

SaveRewrite(c) ==
    /\ pending[c].pc = "loaded"
    /\ LET p == pending[c]
           col == id_column(p.op)
       IN  /\ IF p.op = "save_expense"
              THEN /\ expenses' = save_rewrite(expenses, p.df, p.data, col)
                   /\ UNCHANGED backlog
              ELSE /\ backlog' = save_rewrite(backlog, p.df, p.data, col)
                   /\ UNCHANGED expenses
           /\ pending' = [pending EXCEPT ![c] = [pc |-> "done", op |-> p.op, df |-> p.df,
                                                  data |-> with_id(p.data, col, Len(p.df) + 1),
                                                  ret |-> TRUE]]
           /\ call' = [op |-> p.op, data |-> p.data]
           /\ ret' = TRUE
    /\ UNCHANGED <<users, now, registration_error, rates_vars, session, selected>>

NextSave ==
    \/ initialize_data_files
    \/ \E c \in Callers : SaveLoad(c)
    \/ \E c \in Callers : SaveRewrite(c)

\* two sessions saving expenses and tasks
SpecSave == Init /\ [][NextSave]_vars

----------------------------------------------------------------------------
(* modules/auth.py: the registration form *)

\* re.match("^[a-zA-Z0-9_-]+$", s)
username_pattern(s) == s # <<>> /\ AllIn(s, Letters \cup Digits \cup {"_", "-"})

\* re.match(r'^[a-zA-Z0-9._%+-]+@[a-zA-Z0-9.-]+\.[a-zA-Z]{2,}$', s)
email_pattern(s) ==
    \E i \in 1..Len(s), j \in 1..Len(s) :
        /\ 1 < i /\ i + 1 < j /\ j + 2 <= Len(s)
        /\ s[i] = "@" /\ s[j] = "."
        /\ AllIn(SubSeq(s, 1, i - 1), Letters \cup Digits \cup {".", "_", "%", "+", "-"})
        /\ AllIn(SubSeq(s, i + 1, j - 1), Letters \cup Digits \cup {".", "-"})
        /\ AllIn(SubSeq(s, j + 1, Len(s)), Letters)

\* errors.append(message) if the test holds
error_if(test, message) == IF test THEN <<message>> ELSE <<>>

\* validate_registration_data(username, email, password, confirm_password, terms_accepted)
validate_registration_data(username, email, password, confirm_password, terms_accepted) ==
    LET safe_username == Strip(username)
        safe_email == Strip(email)
        username_errors ==
            IF safe_username = <<>> THEN <<"Username is required">>
            ELSE IF Len(safe_username) < 3 THEN <<"Username must be at least 3 characters long">>
            ELSE IF Len(safe_username) > 50 THEN <<"Username must be less than 50 characters">>
            ELSE error_if(~username_pattern(safe_username),
                          "Username can only contain letters, numbers, hyphens, and underscores")
        email_errors ==
            IF safe_email = <<>> THEN <<"Email is required">>
            ELSE error_if(~email_pattern(safe_email), "Please enter a valid email address")
        password_errors ==
            IF password = <<>> THEN <<"Password is required">>
            ELSE IF Len(password) < 8 THEN <<"Password must be at least 8 characters long">>
            ELSE IF \A k \in 1..Len(password) : password[k] \notin Letters
            THEN <<"Password must contain at least one letter">>
            ELSE error_if(\A k \in 1..Len(password) : password[k] \notin Digits,
                          "Password must contain at least one number")
    IN  username_errors \o email_errors \o password_errors
        \o error_if(password # confirm_password, "Passwords do not match")
        \o error_if(~terms_accepted, "You must accept the Terms of Service and Privacy Policy")

\* what the five fields and the checkbox of the form can hold when it is
\* submitted
RegisterForms ==
    [username : {<<>>, <<"a", "b">>, <<"a", " ", "b">>, <<"A", "b", "c", " ">>},
     email : {<<"x", "@", "y">>, <<"x", "@", "y", ".", "c", "c">>},
     password : {<<"p", "1">>, <<"1", "2", "3", "4", "5", "6", "7", "8">>,
                 <<"p", "a", "c", "c", "a", "b", "c", "a">>,
                 <<"p", "a", "c", "c", "1", "2", "3", "4">>},
     confirm_password : {<<>>, <<"p", "a", "c", "c", "1", "2", "3", "4">>},
     terms_accepted : BOOLEAN,
     full_name : {<<>>, <<"F">>}]

\* user_data of show_register_form
form_user_data(form) ==
    LET safe_full_name == Strip(form.full_name)
    IN  [username |-> Strip(form.username),
         email |-> Lower(Strip(form.email)),
         password |-> form.password,
         full_name |-> IF safe_full_name # <<>> THEN safe_full_name ELSE PyNone]

may_register_always(validation_errors) == TRUE

\* if validation_errors: (show them)  else: (register)
may_register(validation_errors) == validation_errors = <<>>

\* show_register_form with the form submitted; ret is the list of validation
\* errors, whether register_user was called and what it returned
ShowRegisterForm ==
    \E form \in RegisterForms :
        LET validation_errors == validate_registration_data(form.username, form.email, form.password,
                                                            form.confirm_password, form.terms_accepted)
            r == register_user(users, form_user_data(form), now)
        IN  /\ call' = [op |-> "show_register_form", form |-> form]
            /\ IF may_register(validation_errors)
               THEN /\ r.ret => Len(users.rows) < MaxUsers
                    /\ users' = r.file
                    /\ registration_error' = r.err
                    /\ ret' = [validation_errors |-> validation_errors, called |-> TRUE, ret |-> r.ret]
               ELSE /\ users' = users
                    /\ registration_error' = "None"
                    /\ ret' = [validation_errors |-> validation_errors, called |-> FALSE, ret |-> FALSE]
            /\ UNCHANGED <<expenses, backlog, now, rates_vars, session_vars>>

NextRegister ==
    \/ initialize_data_files
    \/ Tick
    \/ ShowRegisterForm

\* the registration page
SpecRegister == Init /\ [][NextRegister]_vars

----------------------------------------------------------------------------
(* modules/backlog.py manage_tasks: the bulk deletion of the completed tasks *)

\* tasks_df[tasks_df['status'] == 'Completed']
completed_of(tasks_df) == LET done(e) == e.row.status = Completed IN SelectSeq(tasks_df, done)

\* for idx in completed_tasks.index: if delete_backlog_item(idx, user_id): success_count += 1
\* [file, success_count]
RECURSIVE delete_each(_, _, _)
delete_each(file, tasks, user_id) ==
    IF tasks = <<>> THEN [file |-> file, success_count |-> 0]
    ELSE LET r == delete_backlog_item(file, Head(tasks).idx, user_id)
             rest == delete_each(r.file, Tail(tasks), user_id)
         IN  [file |-> rest.file,
              success_count |-> rest.success_count + (IF r.ret THEN 1 ELSE 0)]

\* "Delete All Completed", confirmed, on the tasks_df that manage_tasks loaded
\* for the page; ret is success_count
DeleteAllCompletedCall(user_id, tasks_df) ==
    LET completed_tasks == completed_of(tasks_df)
        r == delete_each(backlog, completed_tasks, user_id)
    IN  /\ backlog' = r.file
        /\ ret' = r.success_count
        /\ call' = [op |-> "delete_all_completed", user_id |-> user_id,
                    indexes |-> [k \in 1..Len(completed_tasks) |-> completed_tasks[k].idx]]
        /\ UNCHANGED <<users, expenses, now, registration_error, rates_vars, session_vars>>

DeleteAllCompleted ==
    \E user_id \in UserIds : \E tasks_df \in load_backlog_data(backlog, user_id) :
        DeleteAllCompletedCall(user_id, tasks_df)

NextBulk ==
    \/ initialize_data_files
    \/ Tick
    \/ SaveBacklogItem
    \/ DeleteAllCompleted

\* the task list with its bulk deletion
SpecBulk == Init /\ [][NextBulk]_vars

----------------------------------------------------------------------------
(* modules/expense_tracker.py manage_expenses: one session has an expense of
   the list on screen, other sessions save and delete meanwhile *)

\* the rows a session needs for one of three to be on screen while another
\* is deleted
MaxExpenses == 3

\* the page loads the expenses of the user and one of them is selected; the
\* selectbox holds its index label
SelectExpense ==
    /\ \E user_id \in UserIds : \E df \in load_expenses_data(expenses, user_id) :
        /\ \E k \in 1..Len(df) :
              selected' = [on |-> TRUE, user_id |-> user_id, idx |-> df[k].idx, row |-> df[k].row]
        /\ ret' = df
        /\ call' = [op |-> "load_expenses_data", user_id |-> user_id]
    /\ UNCHANGED <<users, expenses, backlog, now, registration_error, rates_vars, session, pending>>

\* "Yes, Delete" for the expense on screen: delete_expense(selected_expense, user_id)
DeleteSelected ==
    /\ selected.on
    /\ LET r == delete_expense(expenses, selected.idx, selected.user_id) IN
        /\ expenses' = r.file
        /\ ret' = r.ret
        /\ call' = [op |-> "delete_selected_expense", index |-> selected.idx,
                    user_id |-> selected.user_id, shown |-> selected.row]
    /\ selected' = [on |-> FALSE]
    /\ UNCHANGED <<users, backlog, now, registration_error, rates_vars, session, pending>>

\* another session adds an expense
SaveOtherExpense ==
    /\ Len(expenses.rows) < MaxExpenses
    /\ \E expense_data \in ExpenseInputs :
        LET r == save_expense(expenses, expense_data) IN
        /\ expenses' = r.file
        /\ ret' = r.ret
        /\ call' = [op |-> "save_expense", data |-> expense_data]
    /\ UNCHANGED <<users, backlog, now, registration_error, rates_vars, session_vars>>

NextManage ==
    \/ initialize_data_files
    \/ SaveOtherExpense
    \/ DeleteExpense
    \/ SelectExpense
    \/ DeleteSelected

\* the expense list of one session next to the saves and deletes of others
SpecManage == Init /\ [][NextManage]_vars

----------------------------------------------------------------------------
(* utils/auth_utils.py authenticate_user *)

\* users_df.loc[users_df['username'] == username, 'last_login'] = datetime.now().strftime(...)
set_last_login(users_df, username, t) ==
    [k \in 1..Len(users_df) |->
        IF users_df[k].row.username = username
        THEN [idx |-> users_df[k].idx, row |-> [users_df[k].row EXCEPT !.last_login = Strftime(t)]]
        ELSE users_df[k]]

\* authenticate_user(username, password) at time t: [file, ok, ret]; ok tells
\* a returned dict from None
authenticate_user(file, username, password, t) ==
    LET users_df == read_users_csv(file)
        matches(e) == e.row.username = username
        user_match == SelectSeq(users_df, matches)
        user == user_match[1].row
        none == [file |-> file, ok |-> FALSE, ret |-> PyNone]
    IN  IF ~file.exists THEN none
        ELSE IF users_df = <<>> THEN none
        ELSE IF user_match = <<>> THEN none
        ELSE IF user.password_hash = hash_password(password)
        THEN [file |-> to_csv(set_last_login(users_df, username, t)),
              ok |-> TRUE,
              ret |-> [user_id |-> user.user_id, username |-> user.username, email |-> user.email,
                       full_name |-> user.full_name, last_login |-> user.last_login]]
        ELSE none

\* usernames and passwords typed into the forms
Usernames == {<<"b">>, <<"B">>, <<" ", "b">>, <<"1", "2">>}
Passwords == {<<"p">>, <<"q">>}

\* what register_user is handed for a new account
AccountInputs ==
    [username : Usernames, email : {<<"x">>, <<"y">>}, password : Passwords, full_name : {<<"F">>}]

RegisterAccount == \E user_data \in AccountInputs : RegisterUserCall(user_data)

AuthenticateUserCall(username, password) ==
    LET r == authenticate_user(users, username, password, now) IN
    /\ users' = r.file
    /\ ret' = r.ret
    /\ call' = [op |-> "authenticate_user", username |-> username, password |-> password]
    /\ UNCHANGED <<expenses, backlog, now, registration_error, rates_vars, session_vars>>

AuthenticateUser == \E username \in Usernames, password \in Passwords : AuthenticateUserCall(username, password)

NextAuth ==
    \/ initialize_data_files
    \/ Tick
    \/ RegisterAccount
    \/ AuthenticateUser

\* accounts and logins
SpecAuth == Init /\ [][NextAuth]_vars

----------------------------------------------------------------------------
(* utils/auth_utils.py update_user_profile *)

\* for key, value in profile_data.items():
\*     if key in users_df.columns: users_df.loc[user_index[0], key] = value
set_profile(users_df, label, profile_data) ==
    [k \in 1..Len(users_df) |->
        IF users_df[k].idx = label
        THEN [idx |-> label,
              row |-> [f \in DOMAIN users_df[k].row |->
                          IF f \in DOMAIN profile_data THEN profile_data[f] ELSE users_df[k].row[f]]]
        ELSE users_df[k]]

\* update_user_profile(user_id, profile_data): [file, ret]
update_user_profile(file, user_id, profile_data) ==
    LET users_df == read_users_csv(file)
        has_id(e) == e.row.user_id = user_id
        user_index == SelectSeq(users_df, has_id)
    IN  IF ~file.exists THEN [file |-> file, ret |-> FALSE]
        ELSE IF users_df = <<>> THEN [file |-> file, ret |-> FALSE]
        ELSE IF user_index = <<>> THEN [file |-> file, ret |-> FALSE]
        ELSE [file |-> to_csv(set_profile(users_df, user_index[1].idx, profile_data)), ret |-> TRUE]

\* profile_data: one key or two, columns of the table or not
ProfileInputs ==
    {[full_name |-> <<"Y">>], [nickname |-> <<"m">>], [username |-> <<"b">>], [email |-> <<"X">>],
     [user_id |-> 1], [username |-> <<"c">>, full_name |-> <<"Y">>]}

\* the accounts whose profiles are updated
ProfileAccounts ==
    [username : {<<"b">>, <<"c">>}, email : {<<"x">>, <<"y">>}, password : {<<"p">>}, full_name : {<<"F">>}]

RegisterProfileAccount == \E user_data \in ProfileAccounts : RegisterUserCall(user_data)

UpdateUserProfileCall(user_id, profile_data) ==
    LET r == update_user_profile(users, user_id, profile_data) IN
    /\ users' = r.file
    /\ ret' = r.ret
    /\ call' = [op |-> "update_user_profile", user_id |-> user_id, profile_data |-> profile_data]
    /\ UNCHANGED <<expenses, backlog, now, registration_error, rates_vars, session_vars>>

UpdateUserProfile ==
    \E user_id \in UserIds, profile_data \in ProfileInputs : UpdateUserProfileCall(user_id, profile_data)

NextProfile ==
    \/ initialize_data_files
    \/ RegisterProfileAccount
    \/ UpdateUserProfile

\* accounts and their profile updates
SpecProfile == Init /\ [][NextProfile]_vars

----------------------------------------------------------------------------
(* The session: app.py, modules/auth.py show_login_form.  st.session_state is
   a function from the keys it holds to their values. *)

\* st.session_state.authenticated = True; .username = ...; .user_id = ...
log_in(state, user_data) ==
    [k \in (DOMAIN state) \cup SessionKeys |->
        IF k = "authenticated" THEN TRUE
        ELSE IF k = "username" THEN user_data.username
        ELSE IF k = "user_id" THEN user_data.user_id
        ELSE state[k]]

log_out_keep_username(state) == [k \in (DOMAIN state) \ {"authenticated", "user_id"} |-> state[k]]

\* for key in ['authenticated', 'username', 'user_id']: del st.session_state[key]
log_out(state) == [k \in (DOMAIN state) \ SessionKeys |-> state[k]]

\* the accounts that sign in
SessionAccounts ==
    [username : {<<"b">>, <<"B">>, <<"1", "2">>}, email : {<<"x">>, <<"y">>}, password : {<<"p">>}, full_name : {<<"F">>}]

RegisterSessionAccount == \E user_data \in SessionAccounts : RegisterUserCall(user_data)

\* a run of app.py from the top: initialize_data_files(), initialize_session_state()
RunApp ==
    /\ users' = create_if_absent(users)
    /\ expenses' = create_if_absent(expenses)
    /\ backlog' = create_if_absent(backlog)
    /\ session' = initialize_session_state(session)
    /\ call' = [op |-> "app"]
    /\ ret' = PyNone
    /\ UNCHANGED <<now, registration_error, rates_vars, selected, pending>>

\* show_login_form with the form submitted; main() shows it only while
\* check_authentication() is False.  ret is what authenticate_user returned
\* (None when it was not called)
ShowLoginFormCall(username, password) ==
    LET r == authenticate_user(users, Strip(username), password, now)
        called == Strip(username) # <<>> /\ password # <<>>
    IN  /\ ~check_authentication(session)
        /\ call' = [op |-> "show_login_form", username |-> username, password |-> password]
        /\ IF called
           THEN /\ users' = r.file
                /\ ret' = r.ret
                /\ session' = IF r.ok THEN log_in(session, r.ret) ELSE session
           ELSE /\ users' = users
                /\ ret' = PyNone
                /\ session' = session
        /\ UNCHANGED <<expenses, backlog, now, registration_error, rates_vars, selected, pending>>

ShowLoginForm ==
    \E username \in Usernames \cup {<<" ">>}, password \in Passwords \cup {<<>>} :
        ShowLoginFormCall(username, password)

\* the Logout button of the sidebar, shown to an authenticated session
Logout ==
    /\ check_authentication(session)
    /\ session' = log_out(session)
    /\ call' = [op |-> "logout"]
    /\ ret' = PyNone
    /\ UNCHANGED <<users, expenses, backlog, now, registration_error, rates_vars, selected, pending>>

NextSession ==
    \/ RunApp
    \/ Tick
    \/ RegisterSessionAccount
    \/ ShowLoginForm
    \/ Logout

\* one browser session signing in and out
SpecSession == Init /\ [][NextSession]_vars

----------------------------------------------------------------------------
(* Vocabulary of the properties *)

\* the sequence without its k-th element
RemoveAt(seq, k) == SubSeq(seq, 1, k - 1) \o SubSeq(seq, k + 1, Len(seq))

\* the instant a formatted time stands for
RECURSIVE ParseTime(_)
ParseTime(s) == IF s = <<>> THEN 0 ELSE 10 * ParseTime(SubSeq(s, 1, Len(s) - 1)) + (Ord(s[Len(s)]) - 2)

Missing(v) == v \in {PyNone, NaN}

\* equal values; None and NaN both stand for a missing value
FieldEq(a, b) == a = b \/ (Missing(a) /\ Missing(b))

\* the loaded row has the fields of the record that was saved
RowHas(row, data) ==
    \A f \in DOMAIN data : IF f \in IntCols THEN row[f] = data[f] ELSE FieldEq(row[f], data[f])

\* positions (1-based) of the rows of user u
RowsOf(file, u) == {k \in 1..Len(file.rows) : file.rows[k].user_id = u}

HasDuplicate(file, col) ==
    \E j, k \in 1..Len(file.rows) : j # k /\ file.rows[j][col] = file.rows[k][col]

\* C1: update_backlog_status, delete_backlog_item and delete_expense called on
\* a row index with a user_id that is not the one stored in that row return
\* False and leave the file as it is.
C1_OwnershipIsolation ==
    /\ \A i \in Indexes, u \in UserIds :
        (i < Len(expenses.rows) /\ expenses.rows[i + 1].user_id # u)
            => delete_expense(expenses, i, u) = [file |-> expenses, ret |-> FALSE]
    /\ \A i \in Indexes, u \in UserIds :
        (i < Len(backlog.rows) /\ backlog.rows[i + 1].user_id # u)
            => /\ delete_backlog_item(backlog, i, u) = [file |-> backlog, ret |-> FALSE]
               /\ \A s \in Statuses :
                    update_backlog_status(backlog, i, u, s, now) = [file |-> backlog, ret |-> FALSE]

\* a delete by a user who does not own the row has just been refused
C1_Witness ==
    /\ call.op = "delete_expense"
    /\ call.index < Len(expenses.rows)
    /\ expenses.rows[call.index + 1].user_id # call.user_id
    /\ ret = FALSE

\* C2 (as claimed): after a successful save the next load for the record's
\* user contains a row with the fields of the record and the assigned id.
C2_RoundTrip ==
    /\ (call.op = "save_expense" /\ ret = TRUE)
        => \A df \in load_expenses_data(expenses, call.data.user_id) :
            \E k \in 1..Len(df) :
                /\ RowHas(df[k].row, call.data)
                /\ df[k].row.expense_id = expenses.rows[Len(expenses.rows)].expense_id
    /\ (call.op = "save_backlog_item" /\ ret = TRUE)
        => \A df \in load_backlog_data(backlog, call.data.user_id) :
            \E k \in 1..Len(df) :
                /\ RowHas(df[k].row, call.data)
                /\ df[k].row.task_id = backlog.rows[Len(backlog.rows)].task_id

\* the step is a call of delete_expense / delete_backlog_item / update_backlog_status
IsDeleteExpense == call'.op = "delete_expense" /\ DeleteExpenseCall(call'.index, call'.user_id)

IsDeleteBacklogItem == call'.op = "delete_backlog_item" /\ DeleteBacklogItemCall(call'.index, call'.user_id)

IsUpdateBacklogStatus ==
    call'.op = "update_backlog_status" /\ UpdateBacklogStatusCall(call'.index, call'.user_id, call'.status)

\* C3 (as claimed): a delete called with the expense_id (task_id) of a record
\* of the user that returns True leaves no row with that id in the user's
\* next query.
C3_DeleteById ==
    [][/\ (/\ IsDeleteExpense
           /\ ret' = TRUE
           /\ \E k \in RowsOf(expenses, call'.user_id) : expenses.rows[k].expense_id = call'.index)
            => \A df \in load_expenses_data(expenses', call'.user_id) :
                \A k \in 1..Len(df) : df[k].row.expense_id # call'.index
       /\ (/\ IsDeleteBacklogItem
           /\ ret' = TRUE
           /\ \E k \in RowsOf(backlog, call'.user_id) : backlog.rows[k].task_id = call'.index)
            => \A df \in load_backlog_data(backlog', call'.user_id) :
                \A k \in 1..Len(df) : df[k].row.task_id # call'.index]_vars

\* C3 (amended): a delete called with the 0-based row position of a record of
\* the user returns True, the row at that position is the one removed, and
\* the user's next query returns the user's other rows, one row fewer.
C3_DeleteByIndex ==
    [][/\ (IsDeleteExpense /\ (call'.index + 1) \in RowsOf(expenses, call'.user_id))
            => /\ ret' = TRUE
               /\ expenses'.rows = RemoveAt(expenses.rows, call'.index + 1)
               /\ \A df \in load_expenses_data(expenses', call'.user_id) :
                    /\ Len(df) = Cardinality(RowsOf(expenses, call'.user_id)) - 1
                    /\ \A k \in 1..Len(df) :
                        df[k].row = ReadRow(RemoveAt(expenses.rows, call'.index + 1)[df[k].idx + 1])
       /\ (IsDeleteBacklogItem /\ (call'.index + 1) \in RowsOf(backlog, call'.user_id))
            => /\ ret' = TRUE
               /\ backlog'.rows = RemoveAt(backlog.rows, call'.index + 1)
               /\ \A df \in load_backlog_data(backlog', call'.user_id) :
                    /\ Len(df) = Cardinality(RowsOf(backlog, call'.user_id)) - 1
                    /\ \A k \in 1..Len(df) :
                        df[k].row = ReadRow(RemoveAt(backlog.rows, call'.index + 1)[df[k].idx + 1])]_vars

\* a delete at position 1 of two rows of one user has just succeeded; the
\* row with expense_id 1 is still there
C3_Witness ==
    /\ call.op = "delete_expense"
    /\ ret = TRUE
    /\ call.index = 1
    /\ Len(expenses.rows) = 1
    /\ expenses.rows[1].expense_id = 1
    /\ expenses.rows[1].user_id = call.user_id

\* C4 (as claimed): after a successful update_backlog_status the next load
\* shows the new status on the targeted task, and nothing else has changed.
C4_UpdateOnlyStatus ==
    [][(IsUpdateBacklogStatus /\ ret' = TRUE)
        => /\ \A df \in load_backlog_data(backlog', call'.user_id) :
                \E k \in 1..Len(df) : df[k].idx = call'.index /\ df[k].row.status = call'.status
           /\ backlog'.rows = [backlog.rows EXCEPT ![call'.index + 1].status = call'.status]]_vars

\* C4 (amended): after a successful update_backlog_status the next load shows
\* the new status on the targeted task; of that task only status and
\* updated_at (set to the time of the call) have changed, and no other task
\* has changed.
C4_UpdateStatusAndStamp ==
    [][(IsUpdateBacklogStatus /\ ret' = TRUE)
        => /\ \A df \in load_backlog_data(backlog', call'.user_id) :
                \E k \in 1..Len(df) : df[k].idx = call'.index /\ df[k].row.status = call'.status
           /\ backlog'.rows = [backlog.rows EXCEPT ![call'.index + 1].status = call'.status,
                                                   ![call'.index + 1].updated_at = Strftime(now)]]_vars

\* an update of one of two tasks has just succeeded, later than the task
\* was created
C4_Witness ==
    /\ call.op = "update_backlog_status"
    /\ ret = TRUE
    /\ Len(backlog.rows) = 2
    /\ backlog.rows[call.index + 1].status = call.status
    /\ backlog.rows[call.index + 1].updated_at # backlog.rows[call.index + 1].created_at

\* C5: a load returns exactly the rows of the user: every row of the file
\* with that user_id once, under its index label, and no other row.
C5_QueryIsolation ==
    /\ \A u \in UserIds : \A df \in load_expenses_data(expenses, u) :
        /\ Len(df) = Cardinality(RowsOf(expenses, u))
        /\ {df[k].idx + 1 : k \in 1..Len(df)} = RowsOf(expenses, u)
        /\ \A k \in 1..Len(df) : df[k].row = ReadRow(expenses.rows[df[k].idx + 1])
    /\ \A u \in UserIds : \A df \in load_backlog_data(backlog, u) :
        /\ Len(df) = Cardinality(RowsOf(backlog, u))
        /\ {df[k].idx + 1 : k \in 1..Len(df)} = RowsOf(backlog, u)
        /\ \A k \in 1..Len(df) : df[k].row = ReadRow(backlog.rows[df[k].idx + 1])

\* a load has just returned one row from a file that holds two, the other
\* one of another user
C5_Witness ==
    /\ call.op = "load_expenses_data"
    /\ Len(ret) = 1
    /\ Len(expenses.rows) = 2
    /\ \E k \in 1..2 : expenses.rows[k].user_id # call.user_id

\* C6: the rows a load returns are in non-increasing order of the day the
\* date stands for (expenses) and of the instant created_at stands for (tasks).
C6_QueryOrdering ==
    /\ \A u \in UserIds : \A df \in load_expenses_data(expenses, u) :
        \A k \in 1..(Len(df) - 1) : ParseTime(df[k].row.date) >= ParseTime(df[k + 1].row.date)
    /\ \A u \in UserIds : \A df \in load_backlog_data(backlog, u) :
        \A k \in 1..(Len(df) - 1) : ParseTime(df[k].row.created_at) >= ParseTime(df[k + 1].row.created_at)

\* a load has just returned two expenses of different dates, the one stored
\* last first
C6_Witness ==
    /\ call.op = "load_expenses_data"
    /\ Len(ret) = 2
    /\ ret[1].idx = 1
    /\ ret[1].row.date # ret[2].row.date

\* C7: a save on a file of n rows gives the new row the id n + 1, puts it
\* after the n rows and leaves these as they are.
C7_IdAssignment ==
    /\ \A data \in ExpenseInputs :
        LET r == save_expense(expenses, data)
            n == Len(expenses.rows)
        IN  r.ret => /\ Len(r.file.rows) = n + 1
                     /\ r.file.rows[n + 1].expense_id = n + 1
                     /\ SubSeq(r.file.rows, 1, n) = expenses.rows
    /\ \A data \in TaskInputs :
        LET r == save_backlog_item(backlog, data)
            n == Len(backlog.rows)
        IN  r.ret => /\ Len(r.file.rows) = n + 1
                     /\ r.file.rows[n + 1].task_id = n + 1
                     /\ SubSeq(r.file.rows, 1, n) = backlog.rows

\* a save on a file of one row has just succeeded
C7_Witness ==
    /\ call.op = "save_expense"
    /\ ret = TRUE
    /\ Len(expenses.rows) = 2
    /\ expenses.rows[2].expense_id = 2

\* C8: the id is the row count plus one whatever ids the rows carry: a save
\* on a file that holds a row with id n + 1 ends with two rows of that id;
\* such a file is reached by insert, insert, delete of the first row.
C8_DuplicateIds ==
    /\ \A data \in ExpenseInputs :
        (\E k \in 1..Len(expenses.rows) : expenses.rows[k].expense_id = Len(expenses.rows) + 1)
            => HasDuplicate(save_expense(expenses, data).file, "expense_id")
    /\ \A data \in TaskInputs :
        (\E k \in 1..Len(backlog.rows) : backlog.rows[k].task_id = Len(backlog.rows) + 1)
            => HasDuplicate(save_backlog_item(backlog, data).file, "task_id")

\* a save has just left two expenses with the same expense_id
C8_Witness ==
    /\ call.op = "save_expense"
    /\ ret = TRUE
    /\ HasDuplicate(expenses, "expense_id")

\* C9: a registration whose username equals, ignoring letter case, the
\* username of a row of the users table returns False and leaves the table
\* as it is.
C9_CaseInsensitiveRejection ==
    \A user_data \in RegistrationInputs :
        (\E k \in 1..Len(users.rows) : Lower(users.rows[k].username) = Lower(user_data.username))
            => LET r == register_user(users, user_data, now) IN r.ret = FALSE /\ r.file = users

\* a registration under a username that differs only in case from a stored
\* one has just been refused
C9_Witness ==
    /\ call.op = "register_user"
    /\ ret = FALSE
    /\ registration_error = "Username already exists"
    /\ \E k \in 1..Len(users.rows) :
        /\ users.rows[k].username # call.data.username
        /\ Lower(users.rows[k].username) = Lower(call.data.username)

\* C10 (as claimed): no two rows of the users table have usernames equal
\* ignoring case, and no two have emails equal ignoring case.
C10_UniqueUsers ==
    \A j, k \in 1..Len(users.rows) :
        j # k => /\ Lower(users.rows[j].username) # Lower(users.rows[k].username)
                 /\ Lower(users.rows[j].email) # Lower(users.rows[k].email)

\* C11: a successful registration appends one row whose user_id is greater
\* than every user_id already in the users table (1 when the table has no
\* row), and no two rows of the users table have the same user_id.
C11_UserIdMonotonic ==
    /\ ~HasDuplicate(users, "user_id")
    /\ \A user_data \in RegistrationInputs :
        LET r == register_user(users, user_data, now) IN
        r.ret = TRUE =>
            LET n == Len(r.file.rows) IN
            /\ n = Len(users.rows) + 1
            /\ SubSeq(r.file.rows, 1, n - 1) = users.rows
            /\ \A k \in 1..Len(users.rows) : r.file.rows[n].user_id > users.rows[k].user_id
            /\ users.rows = <<>> => r.file.rows[n].user_id = 1

\* a second user has just been registered and got the next user_id
C11_Witness ==
    /\ call.op = "register_user"
    /\ ret = TRUE
    /\ Len(users.rows) = 2
    /\ users.rows[1].user_id = 1
    /\ users.rows[2].user_id = 2

\* C12 (as claimed): update_backlog_status, delete_backlog_item and
\* delete_expense called with an id that no row of the table carries as its
\* expense_id (task_id) return False and leave the table unchanged.
C12_NotFoundById ==
    [][/\ (/\ IsDeleteExpense
           /\ \A k \in 1..Len(expenses.rows) : expenses.rows[k].expense_id # call'.index)
            => (ret' = FALSE /\ expenses' = expenses)
       /\ (/\ IsDeleteBacklogItem \/ IsUpdateBacklogStatus
           /\ \A k \in 1..Len(backlog.rows) : backlog.rows[k].task_id # call'.index)
            => (ret' = FALSE /\ backlog' = backlog)]_vars

\* C12 (amended): update_backlog_status, delete_backlog_item and
\* delete_expense called with an index that is not the 0-based position of a
\* row of the table (the table may be absent or have no row) return False
\* and leave the table unchanged.
C12_NotFoundByIndex ==
    /\ \A i \in Indexes, u \in UserIds :
        ~(i < Len(expenses.rows))
            => delete_expense(expenses, i, u) = [file |-> expenses, ret |-> FALSE]
    /\ \A i \in Indexes, u \in UserIds :
        ~(i < Len(backlog.rows))
            => /\ delete_backlog_item(backlog, i, u) = [file |-> backlog, ret |-> FALSE]
               /\ \A s \in Statuses :
                    update_backlog_status(backlog, i, u, s, now) = [file |-> backlog, ret |-> FALSE]

\* a delete at a position past the last row of a table that has rows has
\* just been refused
C12_Witness ==
    /\ call.op = "delete_expense"
    /\ ret = FALSE
    /\ expenses.rows # <<>>
    /\ call.index >= Len(expenses.rows)

\* C13: a call of initialize_data_files leaves every table that exists as
\* it is, makes a header-only table of every table that is absent, and a
\* second call right after it changes nothing.
C13_InitializeIdempotent ==
    [][(call'.op = "initialize_data_files" /\ initialize_data_files)
        => /\ users' = (IF users.exists THEN users ELSE HeaderOnly)
           /\ expenses' = (IF expenses.exists THEN expenses ELSE HeaderOnly)
           /\ backlog' = (IF backlog.exists THEN backlog ELSE HeaderOnly)
           /\ create_if_absent(users') = users'
           /\ create_if_absent(expenses') = expenses'
           /\ create_if_absent(backlog') = backlog']_vars

\* initialize_data_files has just run on an expenses table with rows and has
\* created the tables that were absent
C13_Witness ==
    /\ call.op = "initialize_data_files"
    /\ expenses.rows # <<>>
    /\ backlog = HeaderOnly
    /\ users = HeaderOnly

\* the last call met a failing read or write of its file
IOFailed == "io" \in DOMAIN call

\* C14 (as claimed): a record-store operation whose read or write of the
\* backing file fails returns False (an empty result for the loads) and does
\* not raise to its caller.
C14_NoExceptionPropagates ==
    IOFailed =>
        /\ call.op = "initialize_data_files" => ret # Raised
        /\ call.op \in {"load_expenses_data", "load_backlog_data"} => ret = <<>>
        /\ call.op \in {"save_expense", "save_backlog_item", "delete_expense", "delete_backlog_item",
                         "update_backlog_status", "register_user"} => ret = FALSE

\* the step is an exchange-rate call (the clock stands still during a call)
IsRatesCall ==
    /\ clock' = clock
    /\ call'.op \in {"get_cached_exchange_rates", "convert_amount", "show_currency_converter"}

\* C15 (as claimed): a call that requests the rates of a base currency less
\* than ttl seconds after the previous request for that base currency sends
\* no HTTP request for it.
C15_NoRefetchWithinHour ==
    [][\A b \in Currencies :
        (/\ IsRatesCall
         /\ b \in call'.bases
         /\ b \in DOMAIN requested
         /\ clock - requested[b] < ttl)
            => b \notin call'.fetched]_vars

\* the last call was handed a zero or negative number where a positive one
\* is required
NonPositiveInput ==
    \/ call.op = "calculate_emi" /\ (call.principal <= 0 \/ call.tenure_years <= 0)
    \/ call.op = "calculate_compound_interest" /\ (call.principal < 0 \/ call.years <= 0)
    \/ call.op = "calculate_tax" /\ call.annual_income < 0
    \/ call.op = "calculate_savings_goal" /\ (call.target_amount <= 0 \/ call.time_period_years <= 0)
    \/ call.op = "calculate_mortgage_payment" /\ (call.home_price <= 0 \/ call.loan_term_years <= 0)
    \/ call.op = "calculate_retirement_savings" /\ call.current_savings < 0

\* C16 (as claimed): a calculator handed a zero or negative number where a
\* positive one is required raises ValueError and returns no result.
C16_RejectsNonPositive == NonPositiveInput => ret.raises

\* C17 (as claimed): calculate_mortgage_payment raises ValueError when
\* down_payment >= home_price and otherwise returns a result with
\* loan_amount = home_price - down_payment > 0; calculate_retirement_savings
\* raises ValueError when retirement_age <= current_age and otherwise returns
\* years_to_retirement = retirement_age - current_age > 0.
C17_DomainGuards ==
    /\ call.op = "calculate_mortgage_payment"
        => IF call.down_payment >= call.home_price THEN ret.raises
           ELSE /\ ~ret.raises
                /\ ret.loan_amount = (call.home_price - call.down_payment) * 100
                /\ ret.loan_amount > 0
    /\ call.op = "calculate_retirement_savings"
        => IF call.retirement_age <= call.current_age THEN ret.raises
           ELSE /\ ~ret.raises
                /\ ret.years_to_retirement = call.retirement_age - call.current_age
                /\ ret.years_to_retirement > 0

\* C17 (amended): as claimed, except that calculate_mortgage_payment with
\* down_payment < home_price also raises ValueError when loan_term_years is 0
\* or home_price is 0, and returns the result in every other case.
C17_DomainGuardsAndZeroTerm ==
    /\ call.op = "calculate_mortgage_payment"
        => IF call.down_payment >= call.home_price THEN ret.raises
           ELSE /\ ret.raises <=> (call.loan_term_years = 0 \/ call.home_price = 0)
                /\ ~ret.raises
                    => /\ ret.loan_amount = (call.home_price - call.down_payment) * 100
                       /\ ret.loan_amount > 0
    /\ call.op = "calculate_retirement_savings"
        => IF call.retirement_age <= call.current_age THEN ret.raises
           ELSE /\ ~ret.raises
                /\ ret.years_to_retirement = call.retirement_age - call.current_age
                /\ ret.years_to_retirement > 0

\* a mortgage whose down payment equals the home price has just been refused
C17_Witness ==
    /\ call.op = "calculate_mortgage_payment"
    /\ call.home_price > 0
    /\ call.down_payment = call.home_price
    /\ call.loan_term_years > 0
    /\ ret.raises

\* the part of the income that lies between lower and upper
PartBetween(income, lower, upper) ==
    IF income <= lower THEN 0 ELSE IF income < upper THEN income - lower ELSE upper - lower

PartAbove(income, lower) == IF income <= lower THEN 0 ELSE income - lower

\* rate (in percent) times the part of the income inside each of the seven
\* brackets, the bracket bounds multiplied by factor; in cents
BracketSum(income, factor) ==
    10 * PartBetween(income, 0, 10275 * factor)
    + 12 * PartBetween(income, 10275 * factor, 41775 * factor)
    + 22 * PartBetween(income, 41775 * factor, 89450 * factor)
    + 24 * PartBetween(income, 89450 * factor, 190750 * factor)
    + 32 * PartBetween(income, 190750 * factor, 364200 * factor)
    + 35 * PartBetween(income, 364200 * factor, 462550 * factor)
    + 37 * PartAbove(income, 462550 * factor)

C19_JointNotAboveSingle ==
    call.op = "calculate_tax"
        => calculate_tax(call.annual_income, MarriedFilingJointly, call.standard_deduction,
                         call.other_deductions).federal_tax
           <= calculate_tax(call.annual_income, Single, call.standard_deduction,
                            call.other_deductions).federal_tax

\* a joint return has just been taxed less than a single filer would be
C19_Witness ==
    /\ call.op = "calculate_tax"
    /\ call.filing_status = MarriedFilingJointly
    /\ ret.federal_tax > 0
    /\ ret.federal_tax < calculate_tax(call.annual_income, Single, call.standard_deduction,
                                       call.other_deductions).federal_tax

\* C20: calculate_savings_goal called with positive arguments and
\* current_savings >= target_amount returns monthly_savings_required = 0 and
\* goal_achieved = True.
C20_GoalAlreadyMet ==
    (/\ call.op = "calculate_savings_goal"
     /\ call.target_amount > 0
     /\ call.current_savings > 0
     /\ call.annual_return > 0
     /\ call.time_period_years > 0
     /\ call.current_savings >= call.target_amount)
        => /\ ~ret.raises
           /\ ret.monthly_savings_required = 0
           /\ ret.goal_achieved = TRUE

\* a goal equal to the current savings has just been reported as achieved
C20_Witness ==
    /\ call.op = "calculate_savings_goal"
    /\ call.target_amount > 0
    /\ call.current_savings = call.target_amount
    /\ call.annual_return > 0
    /\ call.time_period_years > 0
    /\ ret.goal_achieved = TRUE


\* the value after n months of a deposit P growing by the factor 1 + m a month
\* with C added at the end of every month: P g + C (g - 1) / m for g = (1 + m)^n
ClosedFormGrowth(P, C, m, n) ==
    LET g == Power(One + m, n)
    IN  IF m = 0 THEN (P + n * C) * Scale
        ELSE Mul(P * Scale, g) + Div(Mul(C * Scale, g - One), m)

\* C21  calculate_compound_interest over years >= 0 simulates 12 * years months,
\* each one amount = amount * (1 + m) + C from amount = invested = P: it returns
\* total_invested = P + 12 * years * C, final_amount is the value of that
\* recurrence (to the cent), and total_returns their difference; with
\* annual_return = 0 final_amount = total_invested = P + 12 * years * C and
\* total_returns = 0 exactly (P = 0, C = 100, years = 1 gives 1200).
C21_CompoundGrowth ==
    (call.op = "calculate_compound_interest" /\ call.years >= 0) =>
        LET months == 12 * call.years
            invested == (call.principal + months * call.monthly_contribution) * 100
            closed == round2(ClosedFormGrowth(call.principal, call.monthly_contribution,
                                              monthly_rate_of(call.annual_return), months))
        IN  /\ ~ret.raises
            /\ ret.total_invested = invested
            /\ ret.final_amount - closed \in {-1, 0, 1}
            /\ ret.total_returns - (ret.final_amount - ret.total_invested) \in {-1, 0, 1}
            /\ call.annual_return = 0 =>
                  /\ ret.final_amount = invested
                  /\ ret.total_returns = 0
            /\ (call.principal = 0 /\ call.monthly_contribution = 100 /\ call.annual_return = 0
                    /\ call.years = 1) => ret.final_amount = 120000

\* a deposit with contributions has grown at a positive rate for two years
C21_Witness ==
    /\ call.op = "calculate_compound_interest"
    /\ call.principal = 1000
    /\ call.monthly_contribution = 100
    /\ call.annual_return = 120
    /\ call.years = 2
    /\ ret.final_amount = 396708
    /\ ret.total_invested = 340000


\* what one cent more or less in each of n monthly payments amounts to at the
\* end, at the monthly rate m # 0: a cent times ((1 + m)^n - 1) / m, in cents
PaymentRounding(m, n) == round2(Div(Mul(Scale \div 100, Power(One + m, n) - One), m)) + 1

\* C22  The payment returned by calculate_emi amortizes the loan: the schedule
\* of the EMI page (interest = balance * m, principal = payment - interest,
\* balance -= principal) ends after 12 n months with a balance that is 0 up
\* to the rounding of the payment to cents, and total_payment - total_interest
\* is the principal up to a cent (100000 at 7.5 percent over 15 years: 927.01).
C22_EmiAmortizes ==
    call.op = "show_emi_calculator" =>
        LET tolerance == PaymentRounding(monthly_rate_of(call.annual_rate), ret.months)
        IN  /\ ~ret.raises
            /\ ret.months = 12 * call.loan_tenure_years
            /\ ret.balance <= tolerance
            /\ 0 - ret.balance <= tolerance
            /\ ret.total_payment - ret.total_interest - call.loan_amount * 100 \in {-1, 0, 1}
            /\ (call.loan_amount = 100000 /\ call.annual_rate = 75 /\ call.loan_tenure_years = 15)
                   => ret.emi = 92701

\* the schedule of 100000 at 7.5 percent over 15 years has been run: 180
\* payments of 927.01 leave less than a dollar
C22_Witness ==
    /\ call.op = "show_emi_calculator"
    /\ call.loan_amount = 100000
    /\ call.annual_rate = 75
    /\ call.loan_tenure_years = 15
    /\ ret.emi = 92701
    /\ ret.months = 180
    /\ ret.balance \in 1..99


\* the row a finished save wrote
WrittenRow(p) == WriteRow(p.data)

\* the table a finished save wrote to
TableOf(p) == IF p.op = "save_expense" THEN expenses ELSE backlog

\* C23  Two save_expense (or two save_backlog_item) calls that read the same
\* table before either wrote and both returned True leave the table that was
\* read plus one row, the row of the call that wrote last; the row of the
\* other call is in no line of the file.
C23_LostUpdate ==
    \A c \in Callers : \A d \in Callers \ {c} :
        (/\ pending[c].pc = "done" /\ pending[d].pc = "done"
         /\ pending[c].op = pending[d].op
         /\ pending[c].df = pending[d].df
         /\ pending[c].ret /\ pending[d].ret)
        => LET rows == TableOf(pending[c]).rows
               n == Len(pending[c].df)
           IN  /\ Len(rows) = n + 1
               /\ SubSeq(rows, 1, n) = to_csv(pending[c].df).rows
               /\ rows[n + 1] \in {WrittenRow(pending[c]), WrittenRow(pending[d])}
               /\ WrittenRow(pending[c]) # WrittenRow(pending[d])
                     => \E lost \in {c, d} : \A k \in 1..Len(rows) : rows[k] # WrittenRow(pending[lost])

\* both saves of different expenses have returned True and the file holds
\* the second writer's row only
C23_Witness ==
    /\ pending[1].pc = "done" /\ pending[2].pc = "done"
    /\ pending[1].op = "save_expense" /\ pending[2].op = "save_expense"
    /\ pending[1].ret /\ pending[2].ret
    /\ pending[1].df = pending[2].df
    /\ WrittenRow(pending[1]) # WrittenRow(pending[2])
    /\ Len(expenses.rows) = 1
    /\ expenses.rows[1] = WrittenRow(pending[2])
    /\ \A k \in 1..Len(expenses.rows) : expenses.rows[k] # WrittenRow(pending[1])


\* C24  In the registration flow a submitted form for which
\* validate_registration_data returns errors (in particular one with a
\* password that is not confirmed, or without the terms accepted) does not
\* reach register_user and leaves the users table as it was; register_user is
\* called only with an empty error list.
C24_ValidationPrecedesStorage ==
    [][call'.op = "show_register_form" =>
          /\ (\/ ret'.validation_errors # <<>>
              \/ call'.form.password # call'.form.confirm_password
              \/ ~call'.form.terms_accepted)
                => (users' = users /\ ~ret'.called)
          /\ ret'.called => ret'.validation_errors = <<>>]_vars

\* a form with a bad email has been submitted next to a registered user, and
\* a valid form has been stored
C24_Witness ==
    /\ call.op = "show_register_form"
    /\ ret.validation_errors = <<"Please enter a valid email address">>
    /\ ~ret.called
    /\ Len(users.rows) = 1


\* the step is the bulk deletion of the completed tasks of call'.user_id
IsDeleteAllCompleted ==
    /\ call'.op = "delete_all_completed"
    /\ \E tasks_df \in load_backlog_data(backlog, call'.user_id) :
          DeleteAllCompletedCall(call'.user_id, tasks_df)

\* the rows of the file that are not Completed tasks of user u
WithoutCompleted(file, u) ==
    LET stays(r) == ~(r.user_id = u /\ r.status = Completed) IN SelectSeq(file.rows, stays)

\* C25  The "Delete All Completed" loop, run on one load_backlog_data snapshot
\* in its order, leaves the table it started from minus exactly the Completed
\* tasks of the user, whatever the table (tasks with equal created_at
\* included): no other task is removed and no Completed task of the user stays.
C25_BulkDeleteExact ==
    [][IsDeleteAllCompleted => backlog'.rows = WithoutCompleted(backlog, call'.user_id)]_vars


\* the rows are those of before, in their order and with their cells, but one
OneRowRemoved(before, after) ==
    /\ Len(after.rows) = Len(before.rows) - 1
    /\ \E k \in 1..Len(before.rows) : after.rows = RemoveAt(before.rows, k)

C27_StaleSelectionSafe ==
    [][(/\ call'.op = "delete_selected_expense" /\ selected.on /\ ~selected'.on
        /\ \E k \in 1..Len(expenses.rows) : ReadRow(expenses.rows[k]) = call'.shown)
          => IF ret' = TRUE
             THEN /\ expenses'.rows = RemoveAt(expenses.rows, call'.index + 1)
                  /\ ReadRow(expenses.rows[call'.index + 1]) = call'.shown
             ELSE expenses' = expenses]_vars


\* the step is a call of register_user / authenticate_user
IsRegisterUser == call'.op = "register_user" /\ RegisterUserCall(call'.data)

IsAuthenticateUser ==
    call'.op = "authenticate_user" /\ AuthenticateUserCall(call'.username, call'.password)

\* the two files have the same rows up to the last_login of the rows of username n
SameButLastLogin(before, after, n) ==
    /\ Len(after.rows) = Len(before.rows)
    /\ \A k \in 1..Len(before.rows) :
          \/ after.rows[k] = before.rows[k]
          \/ /\ before.rows[k].username = n
             /\ [after.rows[k] EXCEPT !.last_login = <<>>] = [before.rows[k] EXCEPT !.last_login = <<>>]

\* C28  After register_user has succeeded for username n and password p,
\* authenticate_user(n, p) returns the record of the new user (its user_id),
\* authenticate_user with another password or with another username (one
\* that differs in letter case included) returns None; a failed
\* authenticate_user leaves the users table as it is and a successful one
\* changes nothing but last_login of the rows of that username.
C28_RegisterLoginRoundTrip ==
    [][/\ (IsRegisterUser /\ ret' = TRUE)
            => LET n == call'.data.username
                   p == call'.data.password
                   new_user == users'.rows[Len(users'.rows)]
               IN  /\ authenticate_user(users', n, p, now).ok
                   /\ authenticate_user(users', n, p, now).ret.user_id = new_user.user_id
                   /\ \A q \in Passwords \ {p} : ~authenticate_user(users', n, q, now).ok
                   /\ \A m \in Usernames \ {new_user.username} :
                         ~authenticate_user(users', m, p, now).ok
       /\ IsAuthenticateUser
            => IF authenticate_user(users, call'.username, call'.password, now).ok
               THEN SameButLastLogin(users, users', call'.username)
               ELSE users' = users]_vars


IsUpdateUserProfile ==
    call'.op = "update_user_profile" /\ UpdateUserProfileCall(call'.user_id, call'.profile_data)

\* no two rows share a user_id, a username or an email, letter case ignored
UniqueIdentity(file) ==
    \A j, k \in 1..Len(file.rows) :
        j # k => /\ file.rows[j].user_id # file.rows[k].user_id
                 /\ Lower(file.rows[j].username) # Lower(file.rows[k].username)
                 /\ Lower(file.rows[j].email) # Lower(file.rows[k].email)

\* C29  update_user_profile keeps the identity of the users unique: called,
\* with whatever keys and values, on a table in which no two rows share a
\* user_id, a username or an email (ignoring case), it leaves such a table.
C29_ProfileKeepsIdentityUnique ==
    [][(IsUpdateUserProfile /\ UniqueIdentity(users)) => UniqueIdentity(users')]_vars


\* the step is a submission of the login form
IsShowLoginForm ==
    call'.op = "show_login_form" /\ ShowLoginFormCall(call'.username, call'.password)

\* user_id and username of the session are unset or None
NoUserInSession(state) ==
    \A k \in {"username", "user_id"} : k \in DOMAIN state => state[k] = PyNone

\* C30  In every session state authenticated is True only after a login that
\* succeeded with no logout since: the session, which starts and stays
\* without a user while not authenticated, becomes authenticated exactly by a
\* login for which authenticate_user returned a record, and then holds the
\* user_id and username of that record; they stay until the logout, after
\* which check_authentication() is False and user_id and username are unset
\* or None until the next successful login.
C30_SessionInvariant ==
    [][/\ ~check_authentication(session) => NoUserInSession(session)
       /\ IF IsShowLoginForm /\ authenticate_user(users, Strip(call'.username), call'.password, now).ok
             /\ Strip(call'.username) # <<>> /\ call'.password # <<>>
          THEN LET user_data == authenticate_user(users, Strip(call'.username), call'.password, now).ret
               IN  /\ check_authentication(session')
                   /\ session'.user_id = user_data.user_id
                   /\ session'.username = user_data.username
          ELSE IF call'.op = "logout" /\ check_authentication(session)
          THEN ~check_authentication(session') /\ NoUserInSession(session')
          ELSE IF check_authentication(session)
          THEN session' = session
          ELSE ~check_authentication(session') /\ NoUserInSession(session')]_vars

\* a session that had logged in as user 1 has logged out and the script has
\* run again
C30_Witness ==
    /\ call.op = "app"
    /\ DOMAIN session = SessionKeys
    /\ ~session.authenticated
    /\ session.user_id = PyNone
    /\ \E k \in 1..Len(users.rows) : users.rows[k].last_login # <<>>

====
